---------------------------- MODULE Spec2Model ----------------------------
(***************************************************************************)
(* A model of the provider adapter runtime of pyCityVisitorParking:        *)
(*   - the manifest cache of provider/loader.py (load_manifests,           *)
(*     clear_manifest_cache), stepped at every access to the module-level  *)
(*     globals so that threads started by asyncio.to_thread interleave;    *)
(*   - the generic request execution of provider/base.py;                  *)
(*   - the request pipeline of the adapters (reauthentication, back-off);  *)
(*   - the DVS Portal operations and their operation guard;                *)
(*   - the favorite-update fallback of provider/base.py;                   *)
(*   - the session ownership of the Client facade (client.py);             *)
(*   - what the adapters make of a backend response: the reservations,     *)
(*     permits and identifiers they return, and the error code The Hague   *)
(*     embeds in a body.                                                   *)
(* Each part has its own specification over the shared variable list; a    *)
(* specification leaves the variables of the other parts at their initial  *)
(* values.                                                                 *)
(***************************************************************************)
EXTENDS Integers, Sequences, FiniteSets, TLC

(* Python's None and a present value, for Optional fields. *)
None == <<>>
Some(x) == <<x>>
Val(o) == o[1]

(***************************************************************************)
(* Part 1: provider/loader.py                                              *)
(***************************************************************************)

(* Bounds of the loader model. *)
NumFolders == 2
MaxVersion == 2
MaxTTL == 1
MaxTime == 2

(* The caller threads. *)
Threads == {"T1", "T2"}
Folders == 1..NumFolders

VARIABLES
    disk,                       \* the installed provider packages
    clock,                      \* time.monotonic()
    MANIFEST_CACHE,             \* loader._MANIFEST_CACHE
    MANIFEST_CACHE_EXPIRES_AT,  \* loader._MANIFEST_CACHE_EXPIRES_AT
    thr,                        \* per thread: position in load_manifests / clear_manifest_cache
    cacheStale                  \* observer: a reload failed and left the earlier cache in place

loaderVars == <<disk, clock, MANIFEST_CACHE, MANIFEST_CACHE_EXPIRES_AT, thr, cacheStale>>

VARIABLES
    provider,       \* which adapter the provider instance is ("base": a plain BaseProvider)
    retry_arg,      \* the retry_count argument the instance was constructed with
    retry_count,    \* BaseProvider._retry_count
    auth,           \* _token, _auth_header_value, _credentials, _logged_in
    issued,         \* how many tokens / sessions the backend has issued to this instance
    rs              \* the call in progress: its position, loop counters and what it has sent

requestVars == <<provider, retry_arg, retry_count, auth, issued, rs>>

VARIABLES
    dvs,            \* the DVS Provider instance: its auth fields, defaults, _lock_owner, _lock_depth
    operation_lock, \* its _operation_lock (an asyncio.Lock)
    tk,             \* per task: the operation it runs and what is left of it
    running,        \* the task the event loop is running, "none" between tasks
    lastWrite,      \* observer: the latest write to an auth or defaults field
    interleaved     \* observer: a request was sent between another task's fetch and its POST

dvsVars == <<dvs, operation_lock, tk, running, lastWrite, interleaved>>

VARIABLES
    uf,             \* BaseProvider.update_favorite: the manifest of the instance and the call made
    cl,             \* the Client facade, the aiohttp sessions that exist and the providers built
    rv              \* one adapter operation on one backend response, and what it gave the caller

restVars == <<uf, cl, rv>>

vars == <<loaderVars, requestVars, dvsVars, restVars>>

(* What the steps of each part leave alone. *)
notLoader == <<requestVars, dvsVars, restVars>>
notRequest == <<loaderVars, dvsVars, restVars>>
notDvs == <<loaderVars, requestVars, restVars>>
notFavorite == <<loaderVars, requestVars, dvsVars, cl, rv>>
notClient == <<loaderVars, requestVars, dvsVars, uf, rv>>
notResult == <<loaderVars, requestVars, dvsVars, uf, cl>>

(* The name of a provider folder. *)
FolderName(f) == IF f = 1 THEN "dvsportal" ELSE IF f = 2 THEN "the_hague" ELSE "amsterdam"

(* loader._FAVORITE_UPDATE_FIELDS and _RESERVATION_UPDATE_FIELDS. *)
FAVORITE_UPDATE_FIELDS == {"license_plate", "name"}
RESERVATION_UPDATE_FIELDS == {"start_time", "end_time", "name"}

(* JSON values found in an update-field list; "int7" is the number 7, every *)
(* other item is the string it shows.                                       *)
FieldItems == {"name", " name ", "license_plate", "end_time", " ", "int7"}

(* str.strip() on those strings. *)
StripItem(text) == IF text = " " THEN "" ELSE IF text = " name " THEN "name" ELSE text

(* A JSON value of a capabilities member: a list of items, or not a list. *)
FieldList(items) == [list |-> TRUE, items |-> items]
NotAList == [list |-> FALSE, items |-> <<>>]
FieldValues ==
    {NotAList} \cup {FieldList(<<>>)}
        \cup {FieldList(<<a>>) : a \in FieldItems}
        \cup {FieldList(<<a, b>>) : a, b \in FieldItems}

(* What _normalize_update_fields gives: the tuple, or the ProviderError. *)
Normalized(raised, message, fields) ==
    [raised |-> raised, message |-> message, fields |-> fields]

(* The loop of _normalize_update_fields without the `text in seen` check. *)
RECURSIVE normalize_items_keeps_duplicates(_, _, _, _)
normalize_items_keeps_duplicates(items, allowed, seen, normalized) ==
    IF items = <<>> THEN Normalized("none", "", normalized)
    ELSE LET item == Head(items)
             text == StripItem(item)
         IN  IF item = "int7"
             THEN Normalized("ProviderError", "must be a list of strings", <<>>)
             ELSE IF text = ""
             THEN Normalized("ProviderError", "cannot contain empty values", <<>>)
             ELSE IF text \notin allowed
             THEN Normalized("ProviderError", "contains unsupported value", <<>>)
             ELSE normalize_items_keeps_duplicates(Tail(items), allowed, seen \cup {text},
                                                   Append(normalized, text))

(* loader._normalize_update_fields, lines 44-59: the loop over the items. *)
RECURSIVE normalize_items(_, _, _, _)
normalize_items(items, allowed, seen, normalized) ==
    IF items = <<>> THEN Normalized("none", "", normalized)
    ELSE LET item == Head(items)
             text == StripItem(item)
         IN  IF item = "int7"
             THEN Normalized("ProviderError", "must be a list of strings", <<>>)
             ELSE IF text = ""
             THEN Normalized("ProviderError", "cannot contain empty values", <<>>)
             ELSE IF text \notin allowed
             THEN Normalized("ProviderError", "contains unsupported value", <<>>)
             ELSE IF text \in seen
             THEN Normalized("ProviderError", "cannot contain duplicates", <<>>)
             ELSE normalize_items(Tail(items), allowed, seen \cup {text},
                                  Append(normalized, text))

(* loader._normalize_update_fields *)
normalize_update_fields(value, allowed) ==
    IF ~value.list THEN Normalized("ProviderError", "must be a list", <<>>)
    ELSE normalize_items(value.items, allowed, {}, <<>>)

(* The parsed content of a manifest.json: `object` says whether it is a     *)
(* JSON object, `keys` which members it has; id and name are strings, or    *)
(* "int7" for a value that is not a string.                                 *)
ManifestKeys == {"id", "name", "capabilities"}
CapabilityKeys == {"favorite_update_fields", "reservation_update_fields"}

ValidManifest(f) ==
    [object |-> TRUE, keys |-> ManifestKeys, id |-> FolderName(f), name |-> "Provider",
     capabilities |-> [object |-> TRUE, keys |-> CapabilityKeys,
                       favorite_update_fields |-> FieldList(<<"name">>),
                       reservation_update_fields |-> FieldList(<<"end_time">>)]]

(* The manifests a folder can hold: the valid one with one member changed. *)
ManifestFiles(f) ==
    LET valid == ValidManifest(f) IN
    {[valid EXCEPT !.object = FALSE]}
        \cup {[valid EXCEPT !.keys = k] : k \in SUBSET ManifestKeys}
        \cup {[valid EXCEPT !.id = i] : i \in {FolderName(g) : g \in Folders} \cup {"", "int7"}}
        \cup {[valid EXCEPT !.name = n] : n \in {"Provider", "", "int7"}}
        \cup {[valid EXCEPT !.capabilities.object = FALSE]}
        \cup {[valid EXCEPT !.capabilities.keys = k] : k \in SUBSET CapabilityKeys}
        \cup {[valid EXCEPT !.capabilities.favorite_update_fields = v] : v \in FieldValues}
        \cup {[valid EXCEPT !.capabilities.reservation_update_fields = v] : v \in FieldValues}

(* What _build_manifest gives: the ProviderManifest, or the ProviderError. *)
Built(raised, message, manifest) ==
    [raised |-> raised, message |-> message, manifest |-> manifest]

(* loader._build_manifest *)
build_manifest(data, folder_name) ==
    IF ~data.object
    THEN Built("ProviderError", "Provider manifest must be a JSON object.", <<>>)
    ELSE IF ManifestKeys \ data.keys # {}
    THEN Built("ProviderError", "Provider manifest missing keys", <<>>)
    ELSE IF data.id = "int7" \/ data.id = ""
    THEN Built("ProviderError", "Provider manifest id must be a non-empty string.", <<>>)
    ELSE IF data.id # folder_name
    THEN Built("ProviderError", "Provider manifest id must match its folder name.", <<>>)
    ELSE IF data.name = "int7" \/ data.name = ""
    THEN Built("ProviderError", "Provider manifest name must be a non-empty string.", <<>>)
    ELSE IF ~data.capabilities.object
    THEN Built("ProviderError", "Provider manifest capabilities must be an object.", <<>>)
    ELSE IF "favorite_update_fields" \notin data.capabilities.keys
    THEN Built("ProviderError",
               "Provider manifest capabilities must include favorite_update_fields.", <<>>)
    ELSE IF "reservation_update_fields" \notin data.capabilities.keys
    THEN Built("ProviderError",
               "Provider manifest capabilities must include reservation_update_fields.", <<>>)
    ELSE LET favorite_update_fields ==
                 normalize_update_fields(data.capabilities.favorite_update_fields,
                                         FAVORITE_UPDATE_FIELDS)
             reservation_update_fields ==
                 normalize_update_fields(data.capabilities.reservation_update_fields,
                                         RESERVATION_UPDATE_FIELDS)
         IN  IF favorite_update_fields.raised # "none"
             THEN Built("ProviderError", favorite_update_fields.message, <<>>)
             ELSE IF reservation_update_fields.raised # "none"
             THEN Built("ProviderError", reservation_update_fields.message, <<>>)
             ELSE Built("none", "",
                        [id |-> data.id, name |-> data.name,
                         favorite_update_fields |-> favorite_update_fields.fields,
                         reservation_update_fields |-> reservation_update_fields.fields])

(* What a provider package directory can hold.  fault "nopkg": the provider *)
(* package cannot be imported; "badjson": the manifest of folder `at` is    *)
(* not valid JSON; "badschema": the manifest of folder `at` was written by  *)
(* hand and holds `data`, which _build_manifest may reject.  Every other    *)
(* manifest is the valid one of its folder.                                 *)
Faults == {"none", "nopkg", "badjson", "badschema"}
Disks ==
    UNION {[ver : 1..MaxVersion, fault : {fault}, at : {at},
            data : IF fault = "badschema" THEN ManifestFiles(at) ELSE {ValidManifest(at)}]
               : fault \in Faults, at \in Folders}

(* The content of the manifest.json of folder f. *)
ManifestAt(d, f) ==
    IF d.fault = "badschema" /\ d.at = f THEN d.data ELSE ValidManifest(f)

(* The ProviderManifest that _build_manifest returns for a valid file. *)
ProviderManifest(folder, ver) == [id |-> folder, ver |-> ver]

(* The complete manifest list of one package version. *)
CompleteSet(ver) == [f \in Folders |-> ProviderManifest(f, ver)]

(* cache_ttl arguments: None, a negative value, 0 .. MaxTTL. *)
TTLArgs == {None} \cup {Some(n) : n \in -1..MaxTTL}

IdleThread ==
    [pc |-> "idle", op |-> "none", refresh |-> FALSE, cache_ttl |-> None,
     now |-> 0, idx |-> 0, manifests |-> <<>>, result |-> "none", value |-> <<>>,
     reloads |-> 0, fromCache |-> FALSE, servedStale |-> FALSE,
     cached0 |-> FALSE, fresh0 |-> FALSE]

LoaderInit ==
    /\ disk \in {d \in Disks : d.fault = "none" /\ d.at = 1}
    /\ clock = 0
    /\ MANIFEST_CACHE = None
    /\ MANIFEST_CACHE_EXPIRES_AT = None
    /\ thr = [t \in Threads |-> IdleThread]
    /\ cacheStale = FALSE

(* A call finishes: by returning `value` or by raising `result`. *)
Finish(t, result, value, fromCache) ==
    thr' = [thr EXCEPT ![t].pc = "done", ![t].result = result, ![t].value = value,
                       ![t].fromCache = fromCache,
                       ![t].servedStale = fromCache /\ cacheStale]

Goto(t, pc) == thr' = [thr EXCEPT ![t].pc = pc]

(* load_manifests is entered; the cache_ttl check of lines 131-132 reads no *)
(* shared state and is part of the entry.                                   *)
LoadManifestsCall(t, refresh, cache_ttl) ==
    /\ thr[t].pc = "idle"
    /\ LET call == [IdleThread EXCEPT !.op = "load_manifests", !.refresh = refresh,
                                      !.cache_ttl = cache_ttl,
                                      !.cached0 = MANIFEST_CACHE # None]
       IN  IF cache_ttl # None /\ Val(cache_ttl) < 0
           THEN thr' = [thr EXCEPT ![t] = [call EXCEPT !.pc = "done",
                                                        !.result = "ProviderError"]]
           ELSE thr' = [thr EXCEPT ![t] = [call EXCEPT !.pc = "check_cache"]]
    /\ UNCHANGED <<disk, clock, MANIFEST_CACHE, MANIFEST_CACHE_EXPIRES_AT, cacheStale, notLoader>>

(* line 133: if not refresh and _MANIFEST_CACHE is not None *)
CheckCache(t) ==
    /\ thr[t].pc = "check_cache"
    /\ IF ~thr[t].refresh /\ MANIFEST_CACHE # None
       THEN IF thr[t].cache_ttl = None
            THEN Goto(t, "hit_no_ttl")
            ELSE Goto(t, "read_clock")
       ELSE Goto(t, "pre_clear")
    /\ UNCHANGED <<disk, clock, MANIFEST_CACHE, MANIFEST_CACHE_EXPIRES_AT, cacheStale, notLoader>>

(* list(_MANIFEST_CACHE): a fresh read of the global; list(None) raises. *)
ReturnCache(t) ==
    IF MANIFEST_CACHE = None
    THEN Finish(t, "TypeError", <<>>, FALSE)
    ELSE Finish(t, "ok", Val(MANIFEST_CACHE), TRUE)

(* lines 134-136: cache hit without a TTL *)
HitNoTTL(t) ==
    /\ thr[t].pc = "hit_no_ttl"
    /\ ReturnCache(t)
    /\ UNCHANGED <<disk, clock, MANIFEST_CACHE, MANIFEST_CACHE_EXPIRES_AT, cacheStale, notLoader>>

(* line 137: now = time.monotonic() *)
ReadClock(t) ==
    /\ thr[t].pc = "read_clock"
    /\ thr' = [thr EXCEPT ![t].pc = "check_expiry", ![t].now = clock,
                           ![t].fresh0 = /\ MANIFEST_CACHE_EXPIRES_AT # None
                                         /\ clock < Val(MANIFEST_CACHE_EXPIRES_AT)]
    /\ UNCHANGED <<disk, clock, MANIFEST_CACHE, MANIFEST_CACHE_EXPIRES_AT, cacheStale, notLoader>>

(* line 138, first operand: _MANIFEST_CACHE_EXPIRES_AT is not None *)
CheckExpirySet(t) ==
    /\ thr[t].pc = "check_expiry"
    /\ IF MANIFEST_CACHE_EXPIRES_AT # None
       THEN Goto(t, "compare_expiry")
       ELSE Goto(t, "pre_clear")
    /\ UNCHANGED <<disk, clock, MANIFEST_CACHE, MANIFEST_CACHE_EXPIRES_AT, cacheStale, notLoader>>

(* CompareExpiry with the expiry instant itself still counted as fresh. *)
CompareExpiryInclusive(t) ==
    /\ thr[t].pc = "compare_expiry"
    /\ IF MANIFEST_CACHE_EXPIRES_AT = None
       THEN Finish(t, "TypeError", <<>>, FALSE)
       ELSE IF thr[t].now <= Val(MANIFEST_CACHE_EXPIRES_AT)
            THEN Goto(t, "hit_ttl")
            ELSE Goto(t, "pre_clear")
    /\ UNCHANGED <<disk, clock, MANIFEST_CACHE, MANIFEST_CACHE_EXPIRES_AT, cacheStale, notLoader>>

(* line 138, second operand: now < _MANIFEST_CACHE_EXPIRES_AT, a second     *)
(* read of the global; float < None raises TypeError.                       *)
CompareExpiry(t) ==
    /\ thr[t].pc = "compare_expiry"
    /\ IF MANIFEST_CACHE_EXPIRES_AT = None
       THEN Finish(t, "TypeError", <<>>, FALSE)
       ELSE IF thr[t].now < Val(MANIFEST_CACHE_EXPIRES_AT)
            THEN Goto(t, "hit_ttl")
            ELSE Goto(t, "pre_clear")
    /\ UNCHANGED <<disk, clock, MANIFEST_CACHE, MANIFEST_CACHE_EXPIRES_AT, cacheStale, notLoader>>

(* lines 139-140: cache hit inside the TTL *)
HitTTL(t) ==
    /\ thr[t].pc = "hit_ttl"
    /\ ReturnCache(t)
    /\ UNCHANGED <<disk, clock, MANIFEST_CACHE, MANIFEST_CACHE_EXPIRES_AT, cacheStale, notLoader>>

(* lines 141-142: if cache_ttl is None: _MANIFEST_CACHE = None *)
PreClearCache(t) ==
    /\ thr[t].pc = "pre_clear"
    /\ IF thr[t].cache_ttl = None
       THEN /\ MANIFEST_CACHE' = None
            /\ cacheStale' = FALSE
            /\ Goto(t, "pre_clear_expiry")
       ELSE /\ UNCHANGED <<MANIFEST_CACHE, cacheStale>>
            /\ Goto(t, "iter_files")
    /\ UNCHANGED <<disk, clock, MANIFEST_CACHE_EXPIRES_AT, notLoader>>

(* line 143: _MANIFEST_CACHE_EXPIRES_AT = None *)
PreClearExpiry(t) ==
    /\ thr[t].pc = "pre_clear_expiry"
    /\ MANIFEST_CACHE_EXPIRES_AT' = None
    /\ Goto(t, "iter_files")
    /\ UNCHANGED <<disk, clock, MANIFEST_CACHE, cacheStale, notLoader>>

(* line 146: iter_manifest_files() is called (one reload starts).  A missing *)
(* provider package raises ModuleNotFoundError / PackageNotFoundError, which  *)
(* the handler of lines 152-155 catches.                                      *)
IterManifestFiles(t) ==
    /\ thr[t].pc = "iter_files"
    /\ IF disk.fault = "nopkg"
       THEN thr' = [thr EXCEPT ![t].pc = "fail_clear", ![t].reloads = @ + 1]
       ELSE thr' = [thr EXCEPT ![t].pc = "read_file", ![t].reloads = @ + 1,
                               ![t].idx = 1, ![t].manifests = <<>>]
    /\ UNCHANGED <<disk, clock, MANIFEST_CACHE, MANIFEST_CACHE_EXPIRES_AT, cacheStale, notLoader>>

(* line 153: _MANIFEST_CACHE = None *)
FailClearCache(t) ==
    /\ thr[t].pc = "fail_clear"
    /\ MANIFEST_CACHE' = None
    /\ cacheStale' = FALSE
    /\ Goto(t, "fail_clear_expiry")
    /\ UNCHANGED <<disk, clock, MANIFEST_CACHE_EXPIRES_AT, notLoader>>

(* lines 154-155: _MANIFEST_CACHE_EXPIRES_AT = None; raise ProviderError *)
FailClearExpiry(t) ==
    /\ thr[t].pc = "fail_clear_expiry"
    /\ MANIFEST_CACHE_EXPIRES_AT' = None
    /\ Finish(t, "ProviderError", <<>>, FALSE)
    /\ UNCHANGED <<disk, clock, MANIFEST_CACHE, cacheStale, notLoader>>

(* What the except clause of line 152 does with an error raised in the loop *)
(* body: json.JSONDecodeError is re-raised as ProviderError at line 150 and   *)
(* _build_manifest raises ProviderError; neither is ModuleNotFoundError or    *)
(* PackageNotFoundError, so the handler does not run and the globals stay.    *)
ManifestErrorExit(t) ==
    /\ Finish(t, "ProviderError", <<>>, FALSE)
    /\ cacheStale' = (cacheStale \/ MANIFEST_CACHE # None)
    /\ UNCHANGED <<MANIFEST_CACHE, MANIFEST_CACHE_EXPIRES_AT>>

(* AppendManifest building the list in the shared cache instead of a local *)
(* list (in-place mutation of the published snapshot).                     *)
AppendManifestInPlace(t) ==
    /\ LET built == Append(thr[t].manifests, ProviderManifest(thr[t].idx, disk.ver))
       IN  /\ thr' = [thr EXCEPT ![t].manifests = built,
                                 ![t].idx = @ + 1,
                                 ![t].pc = IF thr[t].idx < NumFolders THEN "read_file"
                                           ELSE IF thr[t].cache_ttl = None THEN "return_local"
                                           ELSE "store_cache"]
           /\ MANIFEST_CACHE' = IF thr[t].cache_ttl = None THEN MANIFEST_CACHE ELSE Some(built)
    /\ UNCHANGED <<MANIFEST_CACHE_EXPIRES_AT, cacheStale>>

(* The local list after one more manifest was appended (line 151). *)
AppendManifest(t) ==
    /\ LET built == Append(thr[t].manifests, ProviderManifest(thr[t].idx, disk.ver))
       IN  thr' = [thr EXCEPT ![t].manifests = built,
                              ![t].idx = @ + 1,
                              ![t].pc = IF thr[t].idx < NumFolders THEN "read_file"
                                        ELSE IF thr[t].cache_ttl = None THEN "return_local"
                                        ELSE "store_cache"]
    /\ UNCHANGED <<MANIFEST_CACHE, MANIFEST_CACHE_EXPIRES_AT, cacheStale>>

(* lines 146-151: one iteration of the loop over the manifest files *)
ReadManifestFile(t) ==
    /\ thr[t].pc = "read_file"
    /\ IF \/ disk.fault = "badjson" /\ disk.at = thr[t].idx
          \/ build_manifest(ManifestAt(disk, thr[t].idx),
                            FolderName(thr[t].idx)).raised # "none"
       THEN ManifestErrorExit(t)
       ELSE AppendManifest(t)
    /\ UNCHANGED <<disk, clock, notLoader>>

(* lines 156-158: if cache_ttl is None: return manifests *)
ReturnLocal(t) ==
    /\ thr[t].pc = "return_local"
    /\ Finish(t, "ok", thr[t].manifests, FALSE)
    /\ UNCHANGED <<disk, clock, MANIFEST_CACHE, MANIFEST_CACHE_EXPIRES_AT, cacheStale, notLoader>>

(* lines 159-160: now = time.monotonic(); _MANIFEST_CACHE = tuple(manifests) *)
StoreCache(t) ==
    /\ thr[t].pc = "store_cache"
    /\ MANIFEST_CACHE' = Some(thr[t].manifests)
    /\ cacheStale' = FALSE
    /\ thr' = [thr EXCEPT ![t].pc = "store_expiry", ![t].now = clock]
    /\ UNCHANGED <<disk, clock, MANIFEST_CACHE_EXPIRES_AT, notLoader>>

(* line 161: _MANIFEST_CACHE_EXPIRES_AT = now + cache_ttl *)
StoreExpiry(t) ==
    /\ thr[t].pc = "store_expiry"
    /\ MANIFEST_CACHE_EXPIRES_AT' = Some(thr[t].now + Val(thr[t].cache_ttl))
    /\ Goto(t, "return_stored")
    /\ UNCHANGED <<disk, clock, MANIFEST_CACHE, cacheStale, notLoader>>

(* line 163: return list(_MANIFEST_CACHE), a fresh read of the global *)
ReturnStored(t) ==
    /\ thr[t].pc = "return_stored"
    /\ IF MANIFEST_CACHE = None
       THEN Finish(t, "TypeError", <<>>, FALSE)
       ELSE Finish(t, "ok", Val(MANIFEST_CACHE), FALSE)
    /\ UNCHANGED <<disk, clock, MANIFEST_CACHE, MANIFEST_CACHE_EXPIRES_AT, cacheStale, notLoader>>

(* clear_manifest_cache, line 179 *)
ClearManifestCacheCall(t) ==
    /\ thr[t].pc = "idle"
    /\ MANIFEST_CACHE' = None
    /\ cacheStale' = FALSE
    /\ thr' = [thr EXCEPT ![t] = [IdleThread EXCEPT !.op = "clear_manifest_cache",
                                                    !.pc = "clear_expiry"]]
    /\ UNCHANGED <<disk, clock, MANIFEST_CACHE_EXPIRES_AT, notLoader>>

(* clear_manifest_cache, line 180 *)
ClearManifestCacheExpiry(t) ==
    /\ thr[t].pc = "clear_expiry"
    /\ MANIFEST_CACHE_EXPIRES_AT' = None
    /\ thr' = [thr EXCEPT ![t].pc = "done", ![t].result = "ok"]
    /\ UNCHANGED <<disk, clock, MANIFEST_CACHE, cacheStale, notLoader>>

(* The caller has taken the result; the thread is free for the next call. *)
CallerContinues(t) ==
    /\ thr[t].pc = "done"
    /\ thr' = [thr EXCEPT ![t] = IdleThread]
    /\ UNCHANGED <<disk, clock, MANIFEST_CACHE, MANIFEST_CACHE_EXPIRES_AT, cacheStale, notLoader>>

(* The monotonic clock advances. *)
Tick ==
    /\ clock < MaxTime
    /\ clock' = clock + 1
    /\ UNCHANGED <<disk, MANIFEST_CACHE, MANIFEST_CACHE_EXPIRES_AT, thr, cacheStale, notLoader>>

(* The installed packages change (an upgrade, a broken install) while no    *)
(* load is reading them.                                                    *)
ChangeDisk(faults) ==
    /\ \A t \in Threads : thr[t].pc \notin {"iter_files", "read_file"}
    /\ \E d \in Disks :
         /\ d # disk
         /\ d.fault \in faults
         /\ d.fault \in {"none", "nopkg"} => d.at = 1
         /\ disk' = d
    /\ UNCHANGED <<clock, MANIFEST_CACHE, MANIFEST_CACHE_EXPIRES_AT, thr, cacheStale, notLoader>>

LoaderStep(t) ==
    \/ \E refresh \in BOOLEAN, cache_ttl \in TTLArgs : LoadManifestsCall(t, refresh, cache_ttl)
    \/ CheckCache(t)
    \/ HitNoTTL(t)
    \/ ReadClock(t)
    \/ CheckExpirySet(t)
    \/ CompareExpiry(t)
    \/ HitTTL(t)
    \/ PreClearCache(t)
    \/ PreClearExpiry(t)
    \/ IterManifestFiles(t)
    \/ FailClearCache(t)
    \/ FailClearExpiry(t)
    \/ ReadManifestFile(t)
    \/ ReturnLocal(t)
    \/ StoreCache(t)
    \/ StoreExpiry(t)
    \/ ReturnStored(t)
    \/ ClearManifestCacheCall(t)
    \/ ClearManifestCacheExpiry(t)
    \/ CallerContinues(t)

(***************************************************************************)
(* Part 2: the request pipeline of one provider instance, one caller.      *)
(* A step is everything the coroutine does between two awaits of the HTTP  *)
(* session: one HTTP exchange and the handling of its response.            *)
(***************************************************************************)

(* Bounds of the request model. *)
MaxRetry == 2
MaxTokens == 2

Providers == {"base", "dvsportal", "the_hague", "amsterdam"}
Methods == {"GET", "POST"}

(* Retry-After header values: absent, or one of these texts. *)
RetryAfterHeaders == {None} \cup {Some(h) : h \in {"0", "2", "-1", "abc"}}

(* Python's int(text): the integer, or None for ValueError. *)
ParseInt(text) ==
    CASE text = "0" -> Some(0)
      [] text = "2" -> Some(2)
      [] text = "-1" -> Some(0 - 1)
      [] OTHER -> None

(* What one HTTP exchange can produce.  status 0: the exchange raised       *)
(* aiohttp.ClientError or TimeoutError.  json: the body decodes as JSON     *)
(* (for a 400 of The Hague / Amsterdam: and carries an error description).  *)
(* granted: the body of a login response grants a token (DVS: a Token and a *)
(* LoginStatus other than 2; Amsterdam: a non-empty token).                 *)
Response(status, json, retry_after, granted) ==
    [status |-> status, json |-> json, retry_after |-> retry_after, granted |-> granted]

Responses ==
    {Response(0, FALSE, None, FALSE)}
    \cup {Response(200, j, None, g) : j \in BOOLEAN, g \in BOOLEAN}
    \cup {Response(st, j, None, FALSE) : st \in {400, 401, 403, 500}, j \in BOOLEAN}
    \cup {Response(429, FALSE, h, FALSE) : h \in RetryAfterHeaders}

(* How the handling of one exchange ends: the loop goes on to the next      *)
(* attempt ("retry"), the call returns the body ("return") or raises.       *)
Outcome(next, error, slept) == [next |-> next, error |-> error, slept |-> slept]

(* BaseProvider.__init__: self._retry_count = max(0, retry_count) *)
NormalizeRetryCount(value) == IF value > 0 THEN value ELSE 0

(* Attempts with every method retried like a GET. *)
AttemptsAnyMethod(method, retries) == retries + 1

(* retries = self._retry_count if method.upper() == "GET" else 0; attempts = retries + 1 *)
Attempts(method, retries) == (IF method = "GET" THEN retries ELSE 0) + 1

(* The except clause for aiohttp.ClientError / TimeoutError of the loops. *)
TransportFailure(attempt, attempts) ==
    IF attempt >= attempts - 1
    THEN Outcome("raise", "NetworkError", 0)
    ELSE Outcome("retry", "none", 0)

(* _raise_for_status with every failing status taken for an auth failure. *)
RaiseForStatusAlwaysAuth(status) ==
    IF 200 <= status /\ status < 300 THEN "none" ELSE "AuthError"

(* BaseProvider._raise_for_status *)
RaiseForStatus(status) ==
    IF 200 <= status /\ status < 300 THEN "none"
    ELSE IF status \in {401, 403} THEN "AuthError"
    ELSE "ProviderError"

(* The body of a 2xx response: response.json() or response.text(). *)
ReadBody(expect_json, resp) ==
    IF expect_json /\ ~resp.json
    THEN Outcome("raise", "ProviderError", 0)
    ELSE Outcome("return", "none", 0)

(* BaseProvider._request: one iteration of its loop. *)
BaseRequestAttempt(method, attempt, attempts, expect_json, resp) ==
    IF resp.status = 0 THEN TransportFailure(attempt, attempts)
    ELSE IF RaiseForStatus(resp.status) # "none"
         THEN Outcome("raise", RaiseForStatus(resp.status), 0)
         ELSE ReadBody(expect_json, resp)

(* The response handling shared by The Hague's _request and Amsterdam's     *)
(* handle_response: a 400 with an error description raises ProviderError    *)
(* with that message, everything else goes through _raise_for_status.       *)
DescribedErrorOrStatus(expect_json, resp) ==
    IF resp.status = 400 /\ resp.json THEN Outcome("raise", "ProviderError", 0)
    ELSE IF RaiseForStatus(resp.status) # "none"
         THEN Outcome("raise", RaiseForStatus(resp.status), 0)
         ELSE ReadBody(expect_json, resp)

(* the_hague Provider._request: one iteration of its loop. *)
TheHagueRequestAttempt(method, attempt, attempts, expect_json, resp) ==
    IF resp.status = 0 THEN TransportFailure(attempt, attempts)
    ELSE DescribedErrorOrStatus(expect_json, resp)

(* BaseProvider._request_with_retries (called by the Amsterdam adapter): a  *)
(* transport failure is retried for a GET up to the configured count, any   *)
(* response is given to the response handler, whose outcome is `handled`.   *)
RequestWithRetriesAttempt(attempt, attempts, resp, handled) ==
    IF resp.status = 0 THEN TransportFailure(attempt, attempts) ELSE handled

(* amsterdam Provider._request: handle_response under _request_with_retries. *)
AmsterdamRequestAttempt(method, attempt, attempts, expect_json, resp) ==
    RequestWithRetriesAttempt(attempt, attempts, resp,
                              DescribedErrorOrStatus(expect_json, resp))

(* The delay _handle_rate_limit sleeps before it decides. *)
RateLimitDelay(retry_after) ==
    IF retry_after = None THEN 0
    ELSE IF ParseInt(Val(retry_after)) = None THEN 0
    ELSE IF Val(ParseInt(Val(retry_after))) > 0 THEN Val(ParseInt(Val(retry_after)))
    ELSE 0

(* _handle_rate_limit giving up on every 429. *)
HandleRateLimitNoRetry(resp, method, attempt, attempts) ==
    Outcome("raise", "ProviderError", RateLimitDelay(resp.retry_after))

(* dvsportal Provider._handle_rate_limit: sleep, then raise or let the loop continue. *)
HandleRateLimit(resp, method, attempt, attempts) ==
    IF method # "GET" \/ attempt >= attempts - 1
    THEN Outcome("raise", "ProviderError", RateLimitDelay(resp.retry_after))
    ELSE Outcome("retry", "none", RateLimitDelay(resp.retry_after))

(* dvsportal Provider._request_with_backoff: one iteration of its loop. *)
DvsRequestAttempt(method, attempt, attempts, expect_json, resp) ==
    IF resp.status = 0 THEN TransportFailure(attempt, attempts)
    ELSE IF resp.status = 429 THEN HandleRateLimit(resp, method, attempt, attempts)
    ELSE IF resp.status \in {401, 403} THEN Outcome("raise", "AuthError", 0)
    ELSE IF ~(200 <= resp.status /\ resp.status < 300)
         THEN Outcome("raise", "ProviderError", 0)
         ELSE ReadBody(expect_json, resp)

(* The message of the exception the handling of one exchange raises (<<>>   *)
(* when it raises none): the f-string of _raise_for_status and of           *)
(* _request_with_backoff keeps the status as a part of the text.            *)
ErrorText(p, attempt, attempts, method, expect_json, resp) ==
    CASE resp.status = 0 ->
            IF attempt >= attempts - 1 THEN <<"Network request failed.">> ELSE <<>>
      [] p = "dvsportal" /\ resp.status = 429 ->
            IF method # "GET" \/ attempt >= attempts - 1
            THEN <<"Provider rate limit exceeded.">> ELSE <<>>
      [] p \in {"the_hague", "amsterdam"} /\ resp.status = 400 /\ resp.json ->
            <<"described">>
      [] resp.status \in {401, 403} -> <<"Authentication failed.">>
      [] ~(200 <= resp.status /\ resp.status < 300) ->
            <<"Provider request failed with status ", resp.status, ".">>
      [] OTHER ->
            IF expect_json /\ ~resp.json
            THEN <<"Response did not contain valid JSON.">> ELSE <<>>

(* The transport loop of the instance's adapter. *)
RequestAttempt(p, method, attempt, attempts, expect_json, resp) ==
    CASE p = "base" -> BaseRequestAttempt(method, attempt, attempts, expect_json, resp)
      [] p = "dvsportal" -> DvsRequestAttempt(method, attempt, attempts, expect_json, resp)
      [] p = "the_hague" -> TheHagueRequestAttempt(method, attempt, attempts, expect_json, resp)
      [] p = "amsterdam" -> AmsterdamRequestAttempt(method, attempt, attempts, expect_json, resp)

(* attempts = 2 if allow_reauth else 1, of _request / _request_with_reauth *)
ReauthPasses(allow_reauth) == IF allow_reauth THEN 2 ELSE 1

(* The reauthentication test without the bound to the first pass. *)
ShouldReauthEveryPass(allow_reauth, pass) == allow_reauth

(* except AuthError: if allow_reauth and attempt == 0 *)
ShouldReauth(allow_reauth, pass) == allow_reauth /\ pass = 0

(* The request each adapter's login sends: (method, expect_json). *)
LoginMethod(p) == IF p = "the_hague" THEN "GET" ELSE "POST"
LoginExpectsJson(p) == p # "the_hague"

(* A login that takes every 2xx login response for a granted token. *)
LoginGrantedAlways(p, resp) == TRUE

(* Whether login accepts a 2xx login response. *)
LoginGranted(p, resp) == p = "the_hague" \/ resp.granted

(* The allow_reauth argument of the requests that login sends: a login     *)
(* whose requests would reauthenticate like every other request.           *)
LoginAllowReauthLikeRequests(p) == TRUE

(* The allow_reauth argument of the requests that login (and DVS'          *)
(* _fetch_permit_media_type_id) sends.                                     *)
LoginAllowReauth(p) == FALSE

(* media_type: _permit_media_type_id is set (DVS, The Hague). *)
NoAuth ==
    [token |-> None, header |-> None, credentials |-> FALSE, logged_in |-> FALSE,
     client_product_id |-> FALSE, media_type |-> FALSE]

(* A login that stores the new token without rebuilding the header value. *)
LoginStoreKeepsHeader(p, a, token, product) ==
    CASE p = "dvsportal" ->
            [a EXCEPT !.token = Some(token), !.credentials = TRUE]
      [] p = "the_hague" ->
            [a EXCEPT !.credentials = TRUE, !.logged_in = TRUE]
      [] p = "amsterdam" ->
            [a EXCEPT !.token = Some(token), !.credentials = TRUE,
                      !.logged_in = TRUE, !.client_product_id = product]

(* What a successful login stores.  product: the credentials given to       *)
(* Amsterdam's login, or else the payload of the token, carry a             *)
(* client_product_id.                                                       *)
LoginStore(p, a, token, product) ==
    CASE p = "dvsportal" ->
            [a EXCEPT !.token = Some(token), !.header = Some(token), !.credentials = TRUE]
      [] p = "the_hague" ->
            [a EXCEPT !.credentials = TRUE, !.logged_in = TRUE]
      [] p = "amsterdam" ->
            [a EXCEPT !.token = Some(token), !.header = Some(token), !.credentials = TRUE,
                      !.logged_in = TRUE, !.client_product_id = product]

(* Whether _permit_media_type_id is set after a successful login: DVS      *)
(* stores the id it sent (given, cached or fetched), The Hague the id of   *)
(* the credentials or else the one it had.                                  *)
MediaTypeAfterLogin(p, a, with_id) ==
    CASE p = "dvsportal" -> TRUE
      [] p = "the_hague" -> with_id \/ a.media_type
      [] OTHER -> a.media_type

(* A _reauthenticate that also forgets the cached credentials. *)
ReauthResetForgetsCredentials(p, a) ==
    IF p = "dvsportal" THEN [a EXCEPT !.token = None, !.header = None, !.credentials = FALSE]
    ELSE [a EXCEPT !.logged_in = FALSE, !.credentials = FALSE]

(* _reauthenticate, up to its call of login. *)
ReauthReset(p, a) ==
    IF p = "dvsportal" THEN [a EXCEPT !.token = None, !.header = None]
    ELSE [a EXCEPT !.logged_in = FALSE]

(* The state in which _ensure_authenticated lets a request pass. *)
Authenticated(p, a) ==
    IF p = "dvsportal" THEN a.token # None /\ a.header # None ELSE a.logged_in

(* The authorization a request of the adapter carries. *)
RequestHeader(p, a) == IF p = "the_hague" THEN None ELSE a.header

IdleCall ==
    [pc |-> "idle", op |-> "none", method |-> "GET", allow_reauth |-> FALSE,
     pass |-> 0, attempt |-> 0, attempts |-> 0, header |-> None,
     lattempt |-> 0, lattempts |-> 0,
     hist |-> <<>>, last |-> Response(0, FALSE, None, FALSE), slept |-> 0, sleptTotal |-> 0,
     authFailures |-> 0, reauths |-> 0, logins |-> 0, loginOk |-> FALSE,
     result |-> "none", data |-> 0, operation |-> "none", ensured |-> FALSE,
     rejected |-> None, message |-> <<>>, with_id |-> FALSE]

RequestUnused ==
    /\ provider = "base"
    /\ retry_arg = 0
    /\ retry_count = 0
    /\ auth = NoAuth
    /\ issued = 0
    /\ rs = IdleCall

(* A provider instance as constructed, with any retry_count argument. *)
RequestInit ==
    /\ provider \in Providers
    /\ retry_arg \in (0 - 1)..MaxRetry
    /\ retry_count = NormalizeRetryCount(retry_arg)
    /\ auth = NoAuth
    /\ issued = 0
    /\ rs = IdleCall

(* exceptions.py: the default_error_code of each exception class, which is  *)
(* the error_code of an exception raised with a message only.               *)
ErrorCode(error) ==
    CASE error = "AuthError" -> "auth_error"
      [] error = "NetworkError" -> "network_error"
      [] error = "ValidationError" -> "validation_error"
      [] error = "ProviderError" -> "provider_error"
      [] error = "RateLimitError" -> "rate_limit"
      [] OTHER -> "none"

(* The class of a response in the history of a call. *)
Kind(resp) ==
    CASE resp.status = 0 -> "transport"
      [] resp.status = 429 -> "rate_limit"
      [] resp.status \in {401, 403} -> "auth"
      [] resp.status >= 200 /\ resp.status < 300 -> "success"
      [] OTHER -> "error"

Raise(call, error) == [call EXCEPT !.pc = "done", !.result = error]

(* A request of the adapter starts: _request / _request_with_reauth is      *)
(* entered after _ensure_authenticated has let the call pass.               *)
RequestCall(method, allow_reauth) ==
    /\ rs.pc = "idle"
    /\ allow_reauth => provider # "base" /\ Authenticated(provider, auth) /\ issued < MaxTokens
    /\ rs' = [IdleCall EXCEPT !.pc = "request", !.op = "request", !.method = method,
                              !.allow_reauth = allow_reauth,
                              !.attempts = Attempts(method, retry_count),
                              !.header = IF allow_reauth THEN RequestHeader(provider, auth)
                                         ELSE None]
    /\ UNCHANGED <<provider, retry_arg, retry_count, auth, issued, notRequest>>

(* login(credentials) is called; username, password, with_id: the merged   *)
(* credentials hold a non-empty username, a non-empty password, a          *)
(* permit_media_type_id.  Without username or password it raises           *)
(* ValidationError; a DVS login that has no media type id, given or        *)
(* cached, fetches one first; otherwise the handshake request is about to  *)
(* be sent.                                                                 *)
LoginCall(username, password, with_id) ==
    /\ rs.pc = "idle"
    /\ provider # "base"
    /\ issued < MaxTokens
    /\ with_id => provider # "amsterdam"
    /\ LET call == [IdleCall EXCEPT !.op = "login", !.logins = 1, !.with_id = with_id]
       IN  IF ~username \/ ~password
           THEN rs' = Raise(call, "ValidationError")
           ELSE IF provider = "dvsportal" /\ ~with_id /\ ~auth.media_type
           THEN rs' = [call EXCEPT !.pc = "media_types",
                                   !.lattempts = Attempts("GET", retry_count)]
           ELSE rs' = [call EXCEPT !.pc = "login",
                                   !.lattempts = Attempts(LoginMethod(provider),
                                                          retry_count)]
    /\ UNCHANGED <<provider, retry_arg, retry_count, auth, issued, notRequest>>

(* The except AuthError clause of the reauthentication loop, reached with   *)
(* the request's pass having raised AuthError: _reauthenticate resets the   *)
(* auth state and calls login with the cached credentials.                  *)
StartReauth(call) ==
    /\ auth' = ReauthReset(provider, auth)
    /\ IF auth.credentials
       THEN rs' = [call EXCEPT !.pc = "login", !.reauths = @ + 1, !.logins = @ + 1,
                               !.lattempt = 0, !.rejected = call.header,
                               !.lattempts = Attempts(LoginMethod(provider), retry_count)]
       ELSE rs' = Raise([call EXCEPT !.reauths = @ + 1], "AuthError")
    /\ UNCHANGED issued

(* The handling of the response to the request itself. *)
RequestResponse(resp) ==
    LET out == RequestAttempt(provider, rs.method, rs.attempt, rs.attempts, TRUE, resp)
        seen == [rs EXCEPT !.hist = Append(@, Kind(resp)), !.last = resp,
                           !.slept = out.slept, !.sleptTotal = @ + out.slept,
                           !.authFailures = IF resp.status \in {401, 403} THEN @ + 1 ELSE @]
    IN  CASE out.next = "retry" ->
                /\ rs' = [seen EXCEPT !.attempt = @ + 1]
                /\ UNCHANGED <<auth, issued>>
          [] out.next = "return" ->
                /\ rs' = [seen EXCEPT !.pc = "done", !.result = "ok", !.data = Len(seen.hist)]
                /\ UNCHANGED <<auth, issued>>
          [] out.next = "raise" ->
                IF out.error = "AuthError" /\ ShouldReauth(rs.allow_reauth, rs.pass)
                THEN StartReauth(seen)
                ELSE /\ rs' = [Raise(seen, out.error) EXCEPT
                                  !.message = ErrorText(provider, rs.attempt, rs.attempts,
                                                        rs.method, TRUE, resp)]
                     /\ UNCHANGED <<auth, issued>>

(* login has stored the new auth state; when it was called by              *)
(* _reauthenticate the loop of the request continues with rebuilt headers.  *)
AfterLogin(call) ==
    /\ issued' = issued + 1
    /\ \E product \in BOOLEAN :
          /\ provider # "amsterdam" => ~product
          /\ call.op # "login" /\ auth.client_product_id => product
          /\ auth' = [LoginStore(provider, auth, issued + 1, product) EXCEPT
                         !.media_type = MediaTypeAfterLogin(provider, auth, call.with_id)]
    /\ IF call.op = "login"
       THEN rs' = [call EXCEPT !.pc = "done", !.result = "ok", !.loginOk = TRUE]
       ELSE IF call.ensured /\ call.reauths = 0
            THEN rs' = [call EXCEPT !.pc = "request",
                                    !.header = RequestHeader(provider, auth')]
       ELSE IF call.pass + 1 < ReauthPasses(call.allow_reauth)
            THEN rs' = [call EXCEPT !.pc = "request", !.loginOk = TRUE,
                                    !.pass = @ + 1, !.attempt = 0, !.hist = <<>>,
                                    !.header = RequestHeader(provider, auth')]
            ELSE rs' = Raise([call EXCEPT !.loginOk = TRUE], "ProviderError")

(* The public operations every adapter implements. *)
Operations ==
    {"get_permit", "list_reservations", "list_favorites", "start_reservation",
     "update_reservation", "end_reservation", "add_favorite", "remove_favorite"}

(* The method of the first HTTP request an operation sends. *)
FirstRequestMethod(p, op) ==
    CASE p = "dvsportal" -> "POST"
      [] op \in {"get_permit", "list_reservations", "list_favorites"} -> "GET"
      [] p = "the_hague" /\ op \in {"end_reservation", "add_favorite"} -> "GET"
      [] op \in {"start_reservation", "add_favorite"} -> "POST"
      [] op = "remove_favorite" -> "DELETE"
      [] OTHER -> "PATCH"

(* What an operation called with valid arguments raises before it reaches    *)
(* _ensure_authenticated: Amsterdam's get_permit, list_reservations and      *)
(* start_reservation call _require_client_product_id first.                  *)
PrologueError(p, op, a) ==
    IF /\ p = "amsterdam"
       /\ op \in {"get_permit", "list_reservations", "start_reservation"}
       /\ ~a.client_product_id
    THEN "ValidationError"
    ELSE "none"

(* A public operation is called with valid arguments, up to its first HTTP  *)
(* request: the checks before _ensure_authenticated, then                   *)
(* _ensure_authenticated, which lets an authenticated instance pass, logs   *)
(* in with cached credentials, or raises AuthError when there are none.     *)
OperationCall(op) ==
    /\ rs.pc = "idle"
    /\ provider # "base"
    /\ issued < MaxTokens
    /\ LET method == FirstRequestMethod(provider, op)
           call == [IdleCall EXCEPT !.op = "request", !.operation = op,
                                    !.method = method, !.allow_reauth = TRUE,
                                    !.attempts = Attempts(method, retry_count)]
       IN  IF PrologueError(provider, op, auth) # "none"
           THEN rs' = Raise(call, PrologueError(provider, op, auth))
           ELSE IF Authenticated(provider, auth)
           THEN rs' = [call EXCEPT !.pc = "request",
                                   !.header = RequestHeader(provider, auth)]
           ELSE IF ~auth.credentials
           THEN rs' = Raise(call, "AuthError")
           ELSE rs' = [call EXCEPT !.pc = "login", !.ensured = TRUE,
                                   !.lattempts = Attempts(LoginMethod(provider),
                                                          retry_count)]
    /\ UNCHANGED <<provider, retry_arg, retry_count, auth, issued, notRequest>>

(* The except AuthError clause of _request around a request that login     *)
(* sends: with allow_reauth=False the error is raised again.               *)
LoginRequestRaises(error) ==
    IF error = "AuthError" /\ ShouldReauth(LoginAllowReauth(provider), 0)
    THEN StartReauth(rs)
    ELSE /\ rs' = Raise(rs, error)
         /\ UNCHANGED <<auth, issued>>

(* The handling of the response to login's handshake request, sent with     *)
(* allow_reauth=False.                                                      *)
LoginResponse(resp) ==
    LET out == RequestAttempt(provider, LoginMethod(provider), rs.lattempt, rs.lattempts,
                              LoginExpectsJson(provider), resp)
    IN  CASE out.next = "retry" ->
                /\ rs' = [rs EXCEPT !.lattempt = @ + 1]
                /\ UNCHANGED <<auth, issued>>
          [] out.next = "return" ->
                IF LoginGranted(provider, resp)
                THEN AfterLogin(rs)
                ELSE /\ rs' = Raise(rs, "AuthError")
                     /\ UNCHANGED <<auth, issued>>
          [] out.next = "raise" -> LoginRequestRaises(out.error)

(* dvsportal Provider._fetch_permit_media_type_id: the handling of the      *)
(* response to its GET, sent with allow_reauth=False; resp.granted: the     *)
(* body lists a permit media type with an ID.  login then validates the id  *)
(* and sends the handshake request.                                         *)
MediaTypesResponse(resp) ==
    LET out == RequestAttempt(provider, "GET", rs.lattempt, rs.lattempts, TRUE, resp)
    IN  CASE out.next = "retry" ->
                /\ rs' = [rs EXCEPT !.lattempt = @ + 1]
                /\ UNCHANGED <<auth, issued>>
          [] out.next = "return" ->
                /\ IF resp.granted
                   THEN rs' = [rs EXCEPT !.pc = "login", !.lattempt = 0,
                                         !.lattempts = Attempts(LoginMethod(provider),
                                                                retry_count)]
                   ELSE rs' = Raise(rs, "ProviderError")
                /\ UNCHANGED <<auth, issued>>
          [] out.next = "raise" -> LoginRequestRaises(out.error)

(* One HTTP exchange of the call in progress and the handling of its outcome. *)
HttpExchange(resp) ==
    /\ rs.pc \in {"request", "login", "media_types"}
    /\ CASE rs.pc = "request" -> RequestResponse(resp)
         [] rs.pc = "login" -> LoginResponse(resp)
         [] rs.pc = "media_types" -> MediaTypesResponse(resp)
    /\ UNCHANGED <<provider, retry_arg, retry_count, notRequest>>

(* The caller has the result or the error; the instance is idle again. *)
CallReturns ==
    /\ rs.pc = "done"
    /\ rs' = IdleCall
    /\ UNCHANGED <<provider, retry_arg, retry_count, auth, issued, notRequest>>

RequestNext ==
    \/ \E method \in Methods, allow_reauth \in BOOLEAN : RequestCall(method, allow_reauth)
    \/ \E username \in BOOLEAN, password \in BOOLEAN, with_id \in BOOLEAN :
          LoginCall(username, password, with_id)
    \/ \E op \in Operations : OperationCall(op)
    \/ \E resp \in Responses : HttpExchange(resp)
    \/ CallReturns

LoaderUnused ==
    /\ disk = [ver |-> 1, fault |-> "none", at |-> 1, data |-> ValidManifest(1)]
    /\ clock = 0
    /\ MANIFEST_CACHE = None
    /\ MANIFEST_CACHE_EXPIRES_AT = None
    /\ thr = [t \in Threads |-> IdleThread]
    /\ cacheStale = FALSE

(***************************************************************************)
(* Part 3: the DVS Portal operations of one provider instance shared by    *)
(* concurrent asyncio tasks.  Tasks are scheduled cooperatively: the task  *)
(* named by `running` executes until it awaits an HTTP exchange or a held  *)
(* lock, and only then another task runs.  What a task still has to do is  *)
(* its continuation `cont`, a list of instructions; a call of a method     *)
(* puts the method's instructions in front of it.                          *)
(***************************************************************************)

Tasks == {"A", "B"}

DvsOps == {"login", "get_permit", "list_reservations", "list_favorites",
           "start_reservation", "update_reservation", "end_reservation",
           "add_favorite", "remove_favorite"}

(* The operations whose sequence is fetch aggregate, mutate, re-derive defaults. *)
MutatingOps == {"start_reservation", "update_reservation", "end_reservation",
                "add_favorite", "remove_favorite"}

DvsInstance ==
    [token |-> None, auth_header_value |-> None, credentials |-> None,
     permit_media_type_id |-> None, permit_media_code |-> None,
     lock_owner |-> None, lock_depth |-> 0]

(* The defaults a mutating request carries in its payload. *)
Payload(type_id, code) == [permitMediaTypeID |-> type_id, permitMediaCode |-> code]

IdleTask ==
    [status |-> "idle", op |-> "none", cont |-> <<>>, guards |-> <<>>,
     pass |-> 0, has_permit |-> FALSE, with_id |-> FALSE, seq |-> "none",
     result |-> "none", payload |-> Payload(None, None)]

NoWrite == [by |-> "none", fields |-> {}, guarded |-> TRUE]

DvsInit ==
    /\ dvs = DvsInstance
    /\ operation_lock = [locked |-> FALSE, waiters |-> <<>>]
    /\ tk = [t \in Tasks |-> IdleTask]
    /\ running = "none"
    /\ lastWrite = NoWrite
    /\ interleaved = FALSE

(* _request_json_auth and the _request below it: the request follows. *)
AuthRequest(send) == <<"ensure_authenticated", "check_header", send>>

(* A mutating request: its payload is built, then _request_json_auth sends it. *)
MutateRequest == <<"build_payload">> \o AuthRequest("send_mutate")

(* _fetch_base *)
FetchBaseProgram ==
    <<"ensure_authenticated">> \o AuthRequest("send_getbase")
        \o <<"extract_permit", "cache_defaults">>

(* login called by the user *)
LoginProgram ==
    <<"guard_enter", "validate", "login_media_type", "send_login",
      "login_store", "guard_exit">>

(* login(self._credentials), called by _ensure_authenticated and by         *)
(* _reauthenticate: the cached credentials hold username, password and      *)
(* permit_media_type_id.                                                    *)
InternalLoginProgram == <<"guard_enter", "send_login", "login_store", "guard_exit">>

(* get_permit, list_reservations, list_favorites *)
ListProgram == <<"guard_enter">> \o FetchBaseProgram \o <<"guard_exit">>

(* _ensure_defaults *)
EnsureDefaultsProgram == <<"ensure_authenticated", "fetch_defaults", "check_defaults">>

StartReservationProgram ==
    <<"guard_enter", "validate">> \o EnsureDefaultsProgram
        \o MutateRequest
        \o <<"extract_or_refetch", "cache_defaults", "select_result", "guard_exit">>

UpdateReservationProgram ==
    <<"guard_enter", "validate">> \o FetchBaseProgram \o <<"guard_exit">>
        \o <<"validate", "check_defaults", "validate">>
        \o MutateRequest
        \o <<"extract_or_refetch", "cache_defaults", "select_result">>

EndReservationProgram ==
    <<"guard_enter", "validate">> \o EnsureDefaultsProgram \o <<"guard_exit">>
        \o ListProgram \o <<"validate">>
        \o MutateRequest
        \o <<"extract_or_refetch", "cache_defaults">>

AddFavoriteProgram ==
    <<"guard_enter", "guard_exit", "validate">> \o ListProgram
        \o <<"validate", "check_defaults">>
        \o MutateRequest
        \o <<"extract_or_relist", "select_result">>

RemoveFavoriteProgram ==
    <<"guard_enter", "validate">> \o ListProgram \o <<"check_defaults">>
        \o MutateRequest \o <<"guard_exit">>

Program(op) ==
    CASE op = "login" -> LoginProgram
      [] op \in {"get_permit", "list_reservations", "list_favorites"} -> ListProgram
      [] op = "start_reservation" -> StartReservationProgram
      [] op = "update_reservation" -> UpdateReservationProgram
      [] op = "end_reservation" -> EndReservationProgram
      [] op = "add_favorite" -> AddFavoriteProgram
      [] op = "remove_favorite" -> RemoveFavoriteProgram

SendInstructions == {"send_login", "send_media_types", "send_getbase", "send_mutate"}

(* What the backend answers: a 2xx body with the permit aggregate, a 2xx    *)
(* body without it (for login: without a granted token), 401/403, or any    *)
(* other failure of the exchange.                                           *)
DvsOutcomes == {"ok", "ok_no_permit", "auth", "error"}

Runs(t, instr) ==
    /\ running = t
    /\ tk[t].status = "run"
    /\ tk[t].cont # <<>>
    /\ Head(tk[t].cont) = instr

(* The task goes on with the rest of its continuation. *)
Continue(t) == tk' = [tk EXCEPT ![t].cont = Tail(@)]

(* The task goes on with `program` in place of the current instruction. *)
Expand(t, program) == tk' = [tk EXCEPT ![t].cont = program \o Tail(@)]

(* Task t assigns to these fields of the instance. *)
Written(t, fields) ==
    lastWrite' = [by |-> t, fields |-> fields, guarded |-> dvs.lock_owner = Some(t)]

(* An exception that leaves the guards of task t as they are: no finally   *)
(* block runs.                                                              *)
RaiseErrorKeepsLock(t, error, instance) ==
    /\ dvs' = instance
    /\ operation_lock' = operation_lock
    /\ tk' = [tk EXCEPT ![t].status = "done", ![t].result = error,
                        ![t].cont = <<>>, ![t].guards = <<>>, ![t].seq = "none"]
    /\ running' = "none"

(* An exception propagates out of the operation of task t: every guard the  *)
(* task is inside runs its finally block, and the outermost one resets      *)
(* owner and depth and releases the lock.                                   *)
RaiseError(t, error, instance) ==
    /\ dvs' = IF tk[t].guards = <<>> THEN instance
              ELSE [instance EXCEPT !.lock_owner = None, !.lock_depth = 0]
    /\ operation_lock' = IF tk[t].guards = <<>> THEN operation_lock
                         ELSE [operation_lock EXCEPT !.locked = FALSE]
    /\ tk' = [tk EXCEPT ![t].status = "done", ![t].result = error,
                        ![t].cont = <<>>, ![t].guards = <<>>, ![t].seq = "none"]
    /\ running' = "none"

(* A public operation is called in a task of its own; with_id: the          *)
(* credentials given to login include permit_media_type_id.                 *)
DvsCall(t, op, with_id) ==
    /\ op # "login" => ~with_id
    /\ running = "none"
    /\ tk[t].status = "idle"
    /\ tk' = [tk EXCEPT ![t] = [IdleTask EXCEPT !.status = "run", !.op = op,
                                                !.cont = Program(op),
                                                !.with_id = with_id]]
    /\ running' = t
    /\ UNCHANGED <<dvs, operation_lock, lastWrite, interleaved, notDvs>>

(* _operation_guard taking the lock for task t. *)
TakeLock(t) ==
    /\ dvs' = [dvs EXCEPT !.lock_owner = Some(t), !.lock_depth = 1]
    /\ tk' = [tk EXCEPT ![t].cont = Tail(@), ![t].guards = Append(@, "outer"),
                        ![t].status = "run"]
    /\ running' = t

(* _operation_guard, entry *)
GuardEnter(t) ==
    /\ Runs(t, "guard_enter")
    /\ IF dvs.lock_owner = Some(t)
       THEN /\ dvs' = [dvs EXCEPT !.lock_depth = @ + 1]
            /\ tk' = [tk EXCEPT ![t].cont = Tail(@), ![t].guards = Append(@, "nested")]
            /\ UNCHANGED <<operation_lock, running>>
       ELSE IF ~operation_lock.locked /\ operation_lock.waiters = <<>>
            THEN /\ operation_lock' = [operation_lock EXCEPT !.locked = TRUE]
                 /\ TakeLock(t)
            ELSE /\ operation_lock' = [operation_lock EXCEPT !.waiters = Append(@, t)]
                 /\ tk' = [tk EXCEPT ![t].status = "wait_lock"]
                 /\ running' = "none"
                 /\ UNCHANGED dvs
    /\ UNCHANGED <<lastWrite, interleaved, notDvs>>

(* asyncio.Lock.acquire resumes in the first waiter after a release. *)
LockAcquired(t) ==
    /\ running = "none"
    /\ tk[t].status = "wait_lock"
    /\ ~operation_lock.locked
    /\ operation_lock.waiters # <<>> /\ Head(operation_lock.waiters) = t
    /\ operation_lock' = [locked |-> TRUE, waiters |-> Tail(operation_lock.waiters)]
    /\ TakeLock(t)
    /\ UNCHANGED <<lastWrite, interleaved, notDvs>>

(* _operation_guard whose nested exit runs the outermost branch's finally. *)
GuardExitAlwaysReleases(t) ==
    /\ Runs(t, "guard_exit")
    /\ tk[t].guards # <<>>
    /\ dvs' = [dvs EXCEPT !.lock_depth = 0, !.lock_owner = None]
    /\ operation_lock' = [operation_lock EXCEPT !.locked = FALSE]
    /\ tk' = [tk EXCEPT ![t].cont = Tail(@),
                        ![t].guards = SubSeq(@, 1, Len(@) - 1)]
    /\ UNCHANGED <<running, lastWrite, interleaved, notDvs>>

(* _operation_guard, exit *)
GuardExit(t) ==
    /\ Runs(t, "guard_exit")
    /\ tk[t].guards # <<>>
    /\ LET kind == tk[t].guards[Len(tk[t].guards)]
       IN  IF kind = "nested"
           THEN /\ dvs' = [dvs EXCEPT !.lock_depth = @ - 1]
                /\ UNCHANGED operation_lock
           ELSE /\ dvs' = [dvs EXCEPT !.lock_depth = 0, !.lock_owner = None]
                /\ operation_lock' = [operation_lock EXCEPT !.locked = FALSE]
    /\ tk' = [tk EXCEPT ![t].cont = Tail(@),
                        ![t].guards = SubSeq(@, 1, Len(@) - 1)]
    /\ UNCHANGED <<running, lastWrite, interleaved, notDvs>>

(* A check of the arguments or of the fetched lists: it passes or raises    *)
(* ValidationError.                                                         *)
Validate(t) ==
    /\ Runs(t, "validate")
    /\ \/ /\ Continue(t)
          /\ UNCHANGED <<dvs, operation_lock, running>>
       \/ RaiseError(t, "ValidationError", dvs)
    /\ UNCHANGED <<lastWrite, interleaved, notDvs>>

(* The requested object is looked up in the mapped response: found, or      *)
(* ProviderError.                                                           *)
SelectResult(t) ==
    /\ Runs(t, "select_result")
    /\ \/ /\ Continue(t)
          /\ UNCHANGED <<dvs, operation_lock, running>>
       \/ RaiseError(t, "ProviderError", dvs)
    /\ UNCHANGED <<lastWrite, interleaved, notDvs>>

(* _ensure_authenticated *)
EnsureAuthenticated(t) ==
    /\ Runs(t, "ensure_authenticated")
    /\ IF dvs.token = None
       THEN IF dvs.credentials = None
            THEN RaiseError(t, "AuthError", dvs)
            ELSE /\ Expand(t, InternalLoginProgram \o <<"fix_header">>)
                 /\ UNCHANGED <<dvs, operation_lock, running>>
       ELSE /\ Expand(t, <<"fix_header">>)
            /\ UNCHANGED <<dvs, operation_lock, running>>
    /\ UNCHANGED <<lastWrite, interleaved, notDvs>>

(* _ensure_authenticated, lines 460-461 *)
FixHeader(t) ==
    /\ Runs(t, "fix_header")
    /\ IF dvs.token # None /\ dvs.auth_header_value = None
       THEN /\ dvs' = [dvs EXCEPT !.auth_header_value = dvs.token]
            /\ Written(t, {"auth_header_value"})
       ELSE UNCHANGED <<dvs, lastWrite>>
    /\ Continue(t)
    /\ UNCHANGED <<operation_lock, running, interleaved, notDvs>>

(* _request_json_auth, lines 697-698; _request starts with its first pass *)
CheckHeader(t) ==
    /\ Runs(t, "check_header")
    /\ IF dvs.auth_header_value = None
       THEN RaiseError(t, "AuthError", dvs)
       ELSE /\ tk' = [tk EXCEPT ![t].cont = Tail(@), ![t].pass = 0]
            /\ UNCHANGED <<dvs, operation_lock, running>>
    /\ UNCHANGED <<lastWrite, interleaved, notDvs>>

(* login, lines 87-90: the permit media type is looked up when neither the  *)
(* credentials nor the instance have one.                                   *)
LoginMediaType(t) ==
    /\ Runs(t, "login_media_type")
    /\ IF ~tk[t].with_id /\ dvs.permit_media_type_id = None
       THEN Expand(t, <<"send_media_types">>)
       ELSE Continue(t)
    /\ UNCHANGED <<dvs, operation_lock, running, lastWrite, interleaved, notDvs>>

(* The task awaits _request_with_backoff: the transport loop of Part 2,     *)
(* here one exchange with its final outcome.                                *)
Send(t) ==
    /\ \E instr \in SendInstructions : Runs(t, instr)
    /\ tk' = [tk EXCEPT ![t].status = "wait_http",
                        ![t].seq = IF Head(tk[t].cont) = "send_mutate" THEN "mutating" ELSE @]
    /\ running' = "none"
    /\ interleaved' = (interleaved \/ \E u \in Tasks \ {t} : tk[u].seq = "fetched")
    /\ UNCHANGED <<dvs, operation_lock, lastWrite, notDvs>>

(* The response to login's POST (allow_reauth=False): lines 99-111 *)
LoginResponded(t, outcome) ==
    IF outcome = "ok"
    THEN /\ tk' = [tk EXCEPT ![t].cont = Tail(@), ![t].status = "run"]
         /\ running' = t
         /\ UNCHANGED <<dvs, operation_lock>>
    ELSE RaiseError(t, IF outcome = "error" THEN "ProviderError" ELSE "AuthError", dvs)

(* The response to _fetch_permit_media_type_id's GET (allow_reauth=False) *)
MediaTypesResponded(t, outcome) ==
    IF outcome = "ok"
    THEN /\ tk' = [tk EXCEPT ![t].cont = Tail(@), ![t].status = "run"]
         /\ running' = t
         /\ UNCHANGED <<dvs, operation_lock>>
    ELSE RaiseError(t, IF outcome = "auth" THEN "AuthError" ELSE "ProviderError", dvs)

(* A variant of AuthRequestResponded whose loop is not limited to two       *)
(* attempts: every AuthError is answered by a new login and a new request.  *)
AuthRequestRespondedUnlimited(t, outcome) ==
    CASE outcome \in {"ok", "ok_no_permit"} ->
            /\ tk' = [tk EXCEPT ![t].cont = Tail(@), ![t].status = "run",
                                ![t].has_permit = (outcome = "ok"),
                                ![t].seq = IF tk[t].op \notin MutatingOps THEN @
                                           ELSE IF Head(tk[t].cont) = "send_mutate"
                                                THEN "mutated"
                                           ELSE IF outcome = "ok" /\ @ = "none"
                                                THEN "fetched"
                                           ELSE @]
            /\ running' = t
            /\ UNCHANGED <<dvs, operation_lock>>
      [] outcome = "auth" ->
            /\ tk' = [tk EXCEPT ![t].cont = <<"reauthenticate">> \o @,
                                ![t].status = "run", ![t].pass = 1]
            /\ running' = t
            /\ UNCHANGED <<dvs, operation_lock>>
      [] outcome = "error" -> RaiseError(t, "ProviderError", dvs)

(* The response to a request sent with allow_reauth=True: _request, lines   *)
(* 738-755.  On the first AuthError _reauthenticate runs and the request is *)
(* sent again.                                                              *)
AuthRequestResponded(t, outcome) ==
    CASE outcome \in {"ok", "ok_no_permit"} ->
            /\ tk' = [tk EXCEPT ![t].cont = Tail(@), ![t].status = "run",
                                ![t].has_permit = (outcome = "ok"),
                                ![t].seq = IF tk[t].op \notin MutatingOps THEN @
                                           ELSE IF Head(tk[t].cont) = "send_mutate"
                                                THEN "mutated"
                                           ELSE IF outcome = "ok" /\ @ = "none"
                                                THEN "fetched"
                                           ELSE @]
            /\ running' = t
            /\ UNCHANGED <<dvs, operation_lock>>
      [] outcome = "auth" ->
            IF tk[t].pass = 0
            THEN /\ tk' = [tk EXCEPT ![t].cont = <<"reauthenticate">> \o @,
                                     ![t].status = "run", ![t].pass = 1]
                 /\ running' = t
                 /\ UNCHANGED <<dvs, operation_lock>>
            ELSE RaiseError(t, "AuthError", dvs)
      [] outcome = "error" -> RaiseError(t, "ProviderError", dvs)

(* The awaited HTTP exchange of task t completes. *)
HttpResponse(t, outcome) ==
    /\ running = "none"
    /\ tk[t].status = "wait_http"
    /\ CASE Head(tk[t].cont) = "send_login" -> LoginResponded(t, outcome)
         [] Head(tk[t].cont) = "send_media_types" -> MediaTypesResponded(t, outcome)
         [] OTHER -> AuthRequestResponded(t, outcome)
    /\ UNCHANGED <<lastWrite, interleaved, notDvs>>

(* _reauthenticate *)
Reauthenticate(t) ==
    /\ Runs(t, "reauthenticate")
    /\ Written(t, {"token", "auth_header_value"})
    /\ LET reset == [dvs EXCEPT !.token = None, !.auth_header_value = None]
       IN  IF dvs.credentials = None
           THEN RaiseError(t, "AuthError", reset)
           ELSE /\ dvs' = reset
                /\ Expand(t, InternalLoginProgram)
                /\ UNCHANGED <<operation_lock, running>>
    /\ UNCHANGED <<interleaved, notDvs>>

(* login, lines 113-120 *)
LoginStoreToken(t) ==
    /\ Runs(t, "login_store")
    /\ dvs' = [dvs EXCEPT !.token = Some("token"), !.auth_header_value = Some("token"),
                          !.permit_media_type_id = Some("type"),
                          !.credentials = Some("credentials")]
    /\ Written(t, {"token", "auth_header_value", "permit_media_type_id", "credentials"})
    /\ Continue(t)
    /\ UNCHANGED <<operation_lock, running, interleaved, notDvs>>

(* _extract_permit of _fetch_base: no permit in the body raises ProviderError *)
ExtractPermit(t) ==
    /\ Runs(t, "extract_permit")
    /\ IF tk[t].has_permit
       THEN /\ Continue(t)
            /\ UNCHANGED <<dvs, operation_lock, running>>
       ELSE RaiseError(t, "ProviderError", dvs)
    /\ UNCHANGED <<lastWrite, interleaved, notDvs>>

(* The first permit media of a response: its TypeID is absent, usable or   *)
(* an empty string; its Code is absent (or blank) or usable.                *)
MediaTypeIds == {"missing", "type", "blank"}
MediaCodes == {"missing", "code"}

(* _cache_defaults assigning what the media holds, also when it is absent. *)
cache_defaults_overwrites(instance, type_id, code) ==
    [instance EXCEPT
        !.permit_media_type_id = IF type_id = "missing" THEN None ELSE Some(type_id),
        !.permit_media_code = IF code = "missing" THEN None ELSE Some(code)]

(* _cache_defaults, for a TypeID that passes _validate_media_type_id: each  *)
(* default is assigned only when the media holds a usable value.            *)
cache_defaults(instance, type_id, code) ==
    [instance EXCEPT
        !.permit_media_type_id = IF type_id = "missing" THEN @ ELSE Some(type_id),
        !.permit_media_code = IF code = "missing" THEN @ ELSE Some(code)]

(* _cache_defaults: an empty TypeID raises ValidationError in               *)
(* _validate_media_type_id before anything is assigned.                     *)
CacheDefaults(t) ==
    /\ Runs(t, "cache_defaults")
    /\ \E type_id \in MediaTypeIds, code \in MediaCodes :
          IF type_id = "blank"
          THEN /\ RaiseError(t, "ValidationError", dvs)
               /\ UNCHANGED lastWrite
          ELSE /\ dvs' = cache_defaults(dvs, type_id, code)
               /\ IF type_id = "missing" /\ code = "missing"
                  THEN UNCHANGED lastWrite
                  ELSE Written(t, {"permit_media_type_id", "permit_media_code"})
               /\ Continue(t)
               /\ UNCHANGED <<operation_lock, running>>
    /\ UNCHANGED <<interleaved, notDvs>>

(* The payload of a mutating request is built from the instance's defaults. *)
BuildPayload(t) ==
    /\ Runs(t, "build_payload")
    /\ tk' = [tk EXCEPT ![t].cont = Tail(@),
                        ![t].payload = Payload(dvs.permit_media_type_id,
                                               dvs.permit_media_code)]
    /\ UNCHANGED <<dvs, operation_lock, running, lastWrite, interleaved, notDvs>>

DefaultsMissing == dvs.permit_media_type_id = None \/ dvs.permit_media_code = None

(* _ensure_defaults, lines 465-466 *)
FetchDefaults(t) ==
    /\ Runs(t, "fetch_defaults")
    /\ IF DefaultsMissing THEN Expand(t, FetchBaseProgram) ELSE Continue(t)
    /\ UNCHANGED <<dvs, operation_lock, running, lastWrite, interleaved, notDvs>>

(* if self._permit_media_type_id is None or self._permit_media_code is None: raise *)
CheckDefaults(t) ==
    /\ Runs(t, "check_defaults")
    /\ IF DefaultsMissing
       THEN RaiseError(t, "ProviderError", dvs)
       ELSE /\ Continue(t)
            /\ UNCHANGED <<dvs, operation_lock, running>>
    /\ UNCHANGED <<lastWrite, interleaved, notDvs>>

(* try: permit = self._extract_permit(data) except ProviderError: permit =   *)
(* await self._fetch_base()                                                  *)
ExtractOrRefetch(t) ==
    /\ Runs(t, "extract_or_refetch")
    /\ IF tk[t].has_permit THEN Continue(t) ELSE Expand(t, FetchBaseProgram)
    /\ UNCHANGED <<dvs, operation_lock, running, lastWrite, interleaved, notDvs>>

(* add_favorite, lines 382-393: without a permit in the body the favorites  *)
(* are listed again, otherwise the defaults are cached from the body.       *)
ExtractOrRelist(t) ==
    /\ Runs(t, "extract_or_relist")
    /\ IF tk[t].has_permit
       THEN Expand(t, <<"cache_defaults">>)
       ELSE Expand(t, ListProgram)
    /\ UNCHANGED <<dvs, operation_lock, running, lastWrite, interleaved, notDvs>>

(* The operation returns its result. *)
OperationReturns(t) ==
    /\ running = t
    /\ tk[t].status = "run"
    /\ tk[t].cont = <<>>
    /\ tk' = [tk EXCEPT ![t].status = "done", ![t].result = "ok", ![t].seq = "none"]
    /\ running' = "none"
    /\ UNCHANGED <<dvs, operation_lock, lastWrite, interleaved, notDvs>>

(* The caller's task ends; the name is free for another call. *)
TaskEnds(t) ==
    /\ running = "none"
    /\ tk[t].status = "done"
    /\ tk' = [tk EXCEPT ![t] = IdleTask]
    /\ UNCHANGED <<dvs, operation_lock, running, lastWrite, interleaved, notDvs>>

(* Task t is cancelled while it is suspended: CancelledError is raised at  *)
(* the await it is at.  At an HTTP exchange it propagates like every other *)
(* exception; in asyncio.Lock.acquire the task leaves the queue of waiters *)
(* without having taken the lock.                                           *)
Cancel(t) ==
    /\ running = "none"
    /\ tk[t].status \in {"wait_http", "wait_lock"}
    /\ IF tk[t].status = "wait_http"
       THEN RaiseError(t, "CancelledError", dvs)
       ELSE /\ operation_lock' =
                  [operation_lock EXCEPT
                      !.waiters = SelectSeq(@, LAMBDA u : u # t)]
            /\ tk' = [tk EXCEPT ![t].status = "done", ![t].result = "CancelledError",
                                ![t].cont = <<>>, ![t].seq = "none"]
            /\ UNCHANGED <<dvs, running>>
    /\ UNCHANGED <<lastWrite, interleaved, notDvs>>

(* What task t does by itself once an operation was called in it. *)
TaskStep(t) ==
    \/ GuardEnter(t)
    \/ LockAcquired(t)
    \/ GuardExit(t)
    \/ Validate(t)
    \/ SelectResult(t)
    \/ EnsureAuthenticated(t)
    \/ FixHeader(t)
    \/ CheckHeader(t)
    \/ LoginMediaType(t)
    \/ Send(t)
    \/ \E outcome \in DvsOutcomes : HttpResponse(t, outcome)
    \/ Reauthenticate(t)
    \/ LoginStoreToken(t)
    \/ ExtractPermit(t)
    \/ CacheDefaults(t)
    \/ BuildPayload(t)
    \/ FetchDefaults(t)
    \/ CheckDefaults(t)
    \/ ExtractOrRefetch(t)
    \/ ExtractOrRelist(t)
    \/ OperationReturns(t)
    \/ TaskEnds(t)

DvsNext ==
    \E t \in Tasks :
        \/ \E op \in DvsOps, with_id \in BOOLEAN : DvsCall(t, op, with_id)
        \/ TaskStep(t)
        \/ Cancel(t)

(***************************************************************************)
(* Part 4: BaseProvider.update_favorite, the favorite-update fallback.     *)
(* One provider instance built on a manifest of the loader, one call.      *)
(***************************************************************************)

(* Bound: the longest license plate argument. *)
MaxPlateLen == 2

(* The ProviderManifest dataclass: frozen, with slots, so these four are    *)
(* the only attributes an instance has.                                     *)
ProviderManifests ==
    [id : {"dummy"}, name : {"Dummy"},
     favorite_update_fields : SUBSET FAVORITE_UPDATE_FIELDS,
     reservation_update_fields : SUBSET RESERVATION_UPDATE_FIELDS]

(* License plate arguments: strings over a lower-case letter, an upper-case *)
(* letter, a digit and a separator.                                         *)
PlateChars == {"a", "B", "1", "-"}
Plates == UNION {[1..n -> PlateChars] : n \in 0..MaxPlateLen}
FavoriteNames == {None, Some("Home")}

(* upper() leaving every character as it is. *)
UpperKeepsCase(c) == c

(* str.upper() on one character. *)
Upper(c) == IF c = "a" THEN "A" ELSE c

(* _LICENSE_PLATE_RE.sub("", plate.upper()): drop what is not A-Z or 0-9. *)
RECURSIVE StripPlate(_)
StripPlate(plate) ==
    IF plate = <<>> THEN <<>>
    ELSE LET c == Upper(Head(plate))
         IN  (IF c \in {"A", "B", "1"} THEN <<c>> ELSE <<>>) \o StripPlate(Tail(plate))

(* util.normalize_license_plate: the normalized plate, or None for the     *)
(* ValidationError raised when nothing is left.                            *)
normalize_license_plate(plate) ==
    IF StripPlate(plate) = <<>> THEN None ELSE Some(StripPlate(plate))

(* BaseProvider.favorite_update_possible: reads the attribute of that name *)
(* from the manifest; None stands for the AttributeError of an object that *)
(* has no such attribute.                                                  *)
favorite_update_possible(manifest) ==
    IF "favorite_update_possible" \in DOMAIN manifest
    THEN Some(manifest["favorite_update_possible"])
    ELSE None

(* What one call of update_favorite does: the adapter methods it awaited,  *)
(* in order, and how it ended.  removed and added say whether the          *)
(* adapter's remove_favorite and add_favorite succeed when called.         *)
update_favorite(manifest, favorite_id, license_plate, name, removed, added) ==
    LET possible == favorite_update_possible(manifest)
        normalized == normalize_license_plate(Val(license_plate))
        remove == [method |-> "remove_favorite", id |-> favorite_id,
                   license_plate |-> None, name |-> None]
        add == [method |-> "add_favorite", id |-> None,
                license_plate |-> normalized, name |-> name]
        native == [method |-> "_update_favorite_native", id |-> favorite_id,
                   license_plate |-> license_plate, name |-> name]
    IN  IF possible = None
        THEN [calls |-> <<>>, raised |-> "AttributeError", favorite |-> None]
        ELSE IF Val(possible)
        THEN [calls |-> <<native>>, raised |-> "none",
              favorite |-> Some([id |-> favorite_id, license_plate |-> license_plate,
                                 name |-> name])]
        ELSE IF license_plate = None
        THEN [calls |-> <<>>, raised |-> "ValidationError", favorite |-> None]
        ELSE IF normalized = None
        THEN [calls |-> <<>>, raised |-> "ValidationError", favorite |-> None]
        ELSE IF ~removed
        THEN [calls |-> <<remove>>, raised |-> "ProviderError", favorite |-> None]
        ELSE IF ~added
        THEN [calls |-> <<remove, add>>, raised |-> "ProviderError", favorite |-> None]
        ELSE [calls |-> <<remove, add>>, raised |-> "none",
              favorite |-> Some([id |-> "new", license_plate |-> normalized,
                                 name |-> name])]

NoFavoriteCall ==
    [called |-> FALSE, favorite_id |-> "", license_plate |-> None, name |-> None,
     removed |-> FALSE, added |-> FALSE,
     calls |-> <<>>, raised |-> "none", favorite |-> None]

FavoriteInit ==
    \E manifest \in ProviderManifests : uf = [manifest |-> manifest, call |-> NoFavoriteCall]

(* await provider.update_favorite(favorite_id, license_plate, name) *)
UpdateFavoriteCall(license_plate, name, removed, added) ==
    /\ ~uf.call.called
    /\ LET outcome == update_favorite(uf.manifest, "fav1", license_plate, name, removed, added)
       IN  uf' = [uf EXCEPT !.call =
                    [called |-> TRUE, favorite_id |-> "fav1",
                     license_plate |-> license_plate, name |-> name,
                     removed |-> removed, added |-> added,
                     calls |-> outcome.calls, raised |-> outcome.raised,
                     favorite |-> outcome.favorite]]
    /\ UNCHANGED notFavorite

FavoriteNext ==
    \E license_plate \in {None} \cup {Some(p) : p \in Plates}, name \in FavoriteNames,
       removed \in BOOLEAN, added \in BOOLEAN :
        UpdateFavoriteCall(license_plate, name, removed, added)

FavoriteUnused ==
    uf = [manifest |-> [id |-> "dummy", name |-> "Dummy",
                        favorite_update_fields |-> {},
                        reservation_update_fields |-> {}],
          call |-> NoFavoriteCall]

(***************************************************************************)
(* Part 5: client.py, the Client facade and the aiohttp session it uses.   *)
(* Operations are called one after the other.                              *)
(***************************************************************************)

(* Bounds: sessions the Client may create, providers it may build. *)
MaxSessions == 3
MaxProviders == 3

(* provider_id arguments: an installed provider, an unknown one, the empty string. *)
ProviderIds == {"dvsportal", "nosuch", ""}

(* _load_provider_data: the error it raises, or "none". *)
LoadProviderData(provider_id) ==
    IF provider_id = "" THEN "ProviderError"
    ELSE IF provider_id # "dvsportal" THEN "ProviderError"
    ELSE "none"

(* Session 1 is the one the caller made when it supplies one; `by` says     *)
(* who made a session and who closed it.                                    *)
CallerSession == [closed |-> FALSE, made_by |-> "caller", closed_by |-> "nobody"]
ClientSession == [closed |-> FALSE, made_by |-> "client", closed_by |-> "nobody"]

(* Client.__init__ *)
ClientInit ==
    \E supplied \in BOOLEAN :
        cl = [session |-> IF supplied THEN Some(1) ELSE None,
              owns_session |-> ~supplied,
              sessions |-> IF supplied THEN <<CallerSession>> ELSE <<>>,
              providers |-> <<>>,
              last |-> "init",
              raised |-> "none"]

(* Client._ensure_session *)
EnsureSession(c) ==
    IF c.session = None
    THEN [c EXCEPT !.sessions = Append(@, ClientSession),
                   !.session = Some(Len(c.sessions) + 1)]
    ELSE c

(* Client.get_provider; base_url_ok: the adapter's constructor accepts the  *)
(* base_url it is given.                                                    *)
GetProvider(provider_id, base_url_ok) ==
    /\ Len(cl.providers) < MaxProviders
    /\ (LoadProviderData(provider_id) = "none" /\ cl.session = None) =>
           Len(cl.sessions) < MaxSessions
    /\ IF LoadProviderData(provider_id) # "none"
       THEN cl' = [cl EXCEPT !.last = "get_provider",
                             !.raised = LoadProviderData(provider_id)]
       ELSE LET ensured == EnsureSession(cl)
            IN  IF base_url_ok
                THEN cl' = [ensured EXCEPT !.providers = Append(@, Val(ensured.session)),
                                           !.last = "get_provider", !.raised = "none"]
                ELSE cl' = [ensured EXCEPT !.last = "get_provider",
                                           !.raised = "ValidationError"]
    /\ UNCHANGED notClient

(* Client.list_providers *)
ListProviders ==
    /\ cl' = [cl EXCEPT !.last = "list_providers", !.raised = "none"]
    /\ UNCHANGED notClient

(* aclose that closes whatever session the facade uses. *)
acloseAnySession(c) ==
    IF c.session # None
    THEN [c EXCEPT !.sessions[Val(c.session)] =
                       IF @.closed THEN @
                       ELSE [@ EXCEPT !.closed = TRUE, !.closed_by = "client"],
                   !.session = None]
    ELSE c

(* Client.aclose on facade c *)
aclose(c) ==
    IF c.owns_session /\ c.session # None
    THEN [c EXCEPT !.sessions[Val(c.session)] =
                       IF @.closed THEN @
                       ELSE [@ EXCEPT !.closed = TRUE, !.closed_by = "client"],
                   !.session = None]
    ELSE c

Aclose ==
    /\ cl' = [aclose(cl) EXCEPT !.last = "aclose", !.raised = "none"]
    /\ UNCHANGED notClient

(* Client.__aexit__, with or without an exception in flight *)
AsyncContextExit ==
    /\ cl' = [aclose(cl) EXCEPT !.last = "__aexit__", !.raised = "none"]
    /\ UNCHANGED notClient

(* The caller closes the session it supplied. *)
CallerClosesSession ==
    /\ cl.sessions # <<>>
    /\ cl.sessions[1].made_by = "caller"
    /\ ~cl.sessions[1].closed
    /\ cl' = [cl EXCEPT !.sessions[1] = [@ EXCEPT !.closed = TRUE, !.closed_by = "caller"]]
    /\ UNCHANGED notClient

ClientNext ==
    \/ \E provider_id \in ProviderIds, base_url_ok \in BOOLEAN :
          GetProvider(provider_id, base_url_ok)
    \/ ListProviders
    \/ Aclose
    \/ AsyncContextExit
    \/ CallerClosesSession

ClientUnused ==
    cl = [session |-> None, owns_session |-> TRUE, sessions |-> <<>>,
          providers |-> <<>>, last |-> "init", raised |-> "none"]


(***************************************************************************)
(* Part 6: what the DVS Portal and The Hague adapters give the caller for  *)
(* one backend response.  Instants are whole numbers on the UTC time line; *)
(* the canonical UTC timestamp of an instant is the instant.                *)
(***************************************************************************)

(* Bound: the latest local time of a datetime argument or backend timestamp. *)
MaxInstant == 2

ResultProviders == {"dvsportal", "the_hague"}

(* Timezone-aware datetime arguments: a wall-clock time and a UTC offset. *)
Datetimes == [local : 0..MaxInstant, offset : {0, 1}]

(* util.format_utc_timestamp: value.astimezone(UTC), as the canonical string. *)
format_utc_timestamp(value) == value.local - value.offset

(* A timestamp given as a string: an ISO 8601 text with an offset           *)
(* ("aware", the local time and the offset it names; "Z" when the offset   *)
(* is written as a Z suffix), one without offset, a text that is no        *)
(* timestamp, or the empty string.                                         *)
TimestampTexts ==
    [text : {"aware"}, local : 0..MaxInstant, offset : {0, 1}]
    \cup [text : {"naive"}, local : 0..MaxInstant, offset : {0}]
    \cup [text : {"invalid", "empty"}, local : {0}, offset : {0}]

(* isinstance(value, str) *)
IsString(value) == value # None /\ "text" \in DOMAIN value

(* util.parse_timestamp: the datetime in UTC, or None for the              *)
(* ValidationError it raises for a value that is not a string, is empty,   *)
(* is not ISO 8601 or carries no offset.                                   *)
parse_timestamp(value) ==
    IF ~IsString(value) THEN None
    ELSE IF value.text \notin {"aware", "Z"} THEN None
    ELSE Some([local |-> value.local - value.offset, offset |-> 0])

(* The message of the ValidationError parse_timestamp raises for value. *)
parse_timestamp_error(value) ==
    IF ~IsString(value) THEN "Timestamp must be a non-empty string."
    ELSE IF value.text = "empty" THEN "Timestamp must be a non-empty string."
    ELSE IF value.text = "invalid" THEN "Timestamp is not a valid ISO 8601 value."
    ELSE "Timestamp must include timezone information."

(* What validate_reservation_times gives: the error raised, or the pair of *)
(* normalized endpoints.                                                   *)
Validated(raised, message, times) ==
    [raised |-> raised, message |-> message, times |-> times]

(* util.validate_reservation_times: both endpoints go through              *)
(* parse_timestamp, which takes strings only.                              *)
validate_reservation_times(start_time, end_time, require_both) ==
    IF require_both /\ (start_time = None \/ end_time = None)
    THEN Validated("ValidationError", <<"start_time and end_time are required.">>, <<>>)
    ELSE IF \/ start_time # None /\ parse_timestamp(start_time) = None
            \/ end_time # None /\ parse_timestamp(end_time) = None
    THEN Validated("ValidationError",
                   <<parse_timestamp_error(IF start_time # None
                                              /\ parse_timestamp(start_time) = None
                                           THEN start_time ELSE end_time)>>, <<>>)
    ELSE LET start_dt == IF start_time # None THEN parse_timestamp(start_time) ELSE None
             end_dt == IF end_time # None THEN parse_timestamp(end_time) ELSE None
         IN  IF /\ start_dt # None
                /\ end_dt # None
                /\ format_utc_timestamp(Val(end_dt)) <= format_utc_timestamp(Val(start_dt))
             THEN Validated("ValidationError", <<"end_time must be after start_time.">>, <<>>)
             ELSE Validated("none", <<>>,
                            <<IF start_dt # None
                              THEN Some(format_utc_timestamp(Val(start_dt))) ELSE None,
                              IF end_dt # None
                              THEN Some(format_utc_timestamp(Val(end_dt))) ELSE None>>)

(* The reservations a backend holds: it keeps end after start. *)
BackendReservations ==
    {r \in [id : {"r1"}, start_time : 0..MaxInstant, end_time : 0..MaxInstant] :
        r.end_time > r.start_time}

(* The JSON values a backend may send where an identifier is expected:     *)
(* nothing, an empty or blank string, a string, a padded string, a number. *)
RawIds == {"missing", "", " ", "r1", " r1 ", "int7"}

(* Python's str(value) and str.strip() on those values. *)
Str(value) == IF value = "int7" THEN "7" ELSE value
Strip(text) == IF text = " " THEN "" ELSE IF text = " r1 " THEN "r1" ELSE text

(* dvsportal Provider._coerce_id *)
coerce_id(value) == IF value = "missing" THEN "" ELSE Str(value)

(* the_hague Provider._coerce_response_id: the identifier, or None for the *)
(* ProviderError it raises.                                                 *)
coerce_response_id(value) ==
    IF value = "missing" THEN None
    ELSE IF Strip(Str(value)) = "" THEN None
    ELSE Some(Strip(Str(value)))

(* An object handed to the caller: a Permit, Reservation or Favorite. *)
Returned(kind, id, start_time, end_time) ==
    [kind |-> kind, id |-> id, start_time |-> start_time, end_time |-> end_time]

(* What the caller gets: the error raised, the message it carries, the     *)
(* objects returned, and the raw body description handed back as data.     *)
Result(raised, message, objects, body) ==
    [raised |-> raised, message |-> message, objects |-> objects, body |-> body]

(* dvsportal _map_reservations / the_hague _map_reservation on one item of *)
(* the response whose identifier is raw and whose times are those of item. *)
map_reservation(p, raw, item) ==
    IF p = "dvsportal"
    THEN IF raw = "missing" THEN Result("none", <<>>, <<>>, "absent")
         ELSE Result("none", <<>>,
                     <<Returned("Reservation", coerce_id(raw), item.start_time,
                                item.end_time)>>, "absent")
    ELSE IF coerce_response_id(raw) = None
         THEN Result("ProviderError", <<"Provider response missing reservation id.">>,
                     <<>>, "absent")
         ELSE Result("none", <<>>,
                     <<Returned("Reservation", Val(coerce_response_id(raw)),
                                item.start_time, item.end_time)>>, "absent")

(* dvsportal / the_hague _map_permit: code is the media Code (DVS) or the  *)
(* account id (The Hague), zone_code the ZoneCode of the DVS permit.       *)
map_permit(p, code, zone_code) ==
    IF p = "dvsportal"
    THEN LET first == IF coerce_id(code) # "" THEN coerce_id(code) ELSE coerce_id(zone_code)
         IN  Result("none", <<>>,
                    <<Returned("Permit", IF first = "" THEN "permit" ELSE first, 0, 0)>>,
                    "absent")
    ELSE IF coerce_response_id(code) = None
         THEN Result("ProviderError", <<"Provider response missing account id.">>, <<>>, "absent")
         ELSE Result("none", <<>>,
                     <<Returned("Permit", Val(coerce_response_id(code)), 0, 0)>>, "absent")

(* end_reservation of both adapters, once the reservation was found and    *)
(* the backend accepted the request: the existing reservation with the     *)
(* caller's end_time.                                                      *)
end_reservation(p, existing, end_time) ==
    Result("none", <<>>,
           <<Returned("Reservation", existing.id, existing.start_time,
                      format_utc_timestamp(end_time))>>, "absent")

(* A lookup that takes the first listed reservation whatever its id. *)
find_reservation_first(reservations, reservation_id) ==
    IF reservations = <<>> THEN None ELSE Some(reservations[1])

(* the_hague Provider._find_reservation and dvsportal                      *)
(* Provider._select_reservation with reservation_id only: the first listed *)
(* reservation with that id, or None.                                      *)
find_reservation(reservations, reservation_id) ==
    IF \E i \in DOMAIN reservations : reservations[i].id = reservation_id
    THEN Some(reservations[CHOOSE i \in DOMAIN reservations :
                              /\ reservations[i].id = reservation_id
                              /\ \A j \in 1..(i - 1) : reservations[j].id # reservation_id])
    ELSE None

(* The whole of end_reservation: the reservation is looked up in the list  *)
(* fetched by the call and the end request is sent for the one found.      *)
(* The Hague strips the id and requires it, the DVS Portal looks up        *)
(* str(reservation_id).  listed is the mapped list of list_reservations.   *)
end_reservation_by_id(p, reservation_id, listed, end_time) ==
    LET wanted == IF p = "the_hague" THEN Strip(Str(reservation_id)) ELSE Str(reservation_id)
        listing == IF p = "the_hague" THEN <<[method |-> "GET", endpoint |-> "reservation",
                                              payload |-> <<>>]>>
                   ELSE <<[method |-> "POST", endpoint |-> "getbase", payload |-> <<>>]>>
        existing == find_reservation(listed, wanted)
    IN  IF p = "the_hague" /\ wanted = ""
        THEN [out |-> Result("ValidationError", <<"reservation_id is required.">>,
                             <<>>, "absent"),
              http |-> <<>>]
        ELSE IF existing = None
        THEN [out |-> Result("ValidationError", <<"reservation_id was not found.">>,
                             <<>>, "absent"),
              http |-> listing]
        ELSE [out |-> end_reservation(p, Val(existing), end_time),
              http |-> listing \o
                       <<IF p = "the_hague"
                         THEN [method |-> "DELETE", endpoint |-> "reservation",
                               payload |-> <<wanted>>]
                         ELSE [method |-> "POST", endpoint |-> "reservation/end",
                               payload |-> <<wanted>>]>>]

(* start_reservation: the caller's datetimes are validated by              *)
(* _validate_reservation_times (base.py 103-114, which hands them to       *)
(* util.validate_reservation_times), then the reservation the backend made *)
(* for them is returned.                                                   *)
start_reservation(p, start_time, end_time) ==
    LET checked == validate_reservation_times(start_time, end_time, TRUE)
    IN  IF checked.raised # "none"
        THEN Result(checked.raised, checked.message, <<>>, "absent")
        ELSE Result("none", <<>>,
                    <<Returned("Reservation", "r1", Val(checked.times[1]),
                               Val(checked.times[2]))>>, "absent")

(* The `description` a response body may carry: none, an error code in     *)
(* three spellings, a code without a message, and free text.               *)
Descriptions == {"absent", "pv76", " PV076 ", "pv99", "not found!"}

(* the_hague _normalize_error_code: strip, lower-case, pv076 -> pv76. *)
normalize_error_code(value) == IF value = " PV076 " THEN "pv76" ELSE value

(* the_hague _ERROR_MESSAGES, for the codes of Descriptions. *)
ERROR_MESSAGES(code) == IF code = "pv76" THEN "No paid parking at this time" ELSE ""

(* the_hague _error_message_for_code: None when the text is not a code. *)
error_message_for_code(value) ==
    LET code == normalize_error_code(value)
    IN  IF code \notin {"pv76", "pv99"} THEN None
        ELSE IF ERROR_MESSAGES(code) # ""
        THEN Some(<<"Provider error", code, ERROR_MESSAGES(code)>>)
        ELSE Some(<<"Provider error", code>>)

(* the_hague _error_message_from_response *)
error_message_from_response(description) ==
    IF description = "absent" THEN None ELSE error_message_for_code(description)

(* the_hague Provider._request on a response that arrived: a 400 is looked *)
(* at for an error description, any other status goes to _raise_for_status *)
(* and a 2xx body is returned.                                             *)
the_hague_request(status, description) ==
    IF status = 400 /\ error_message_from_response(description) # None
    THEN Result("ProviderError", Val(error_message_from_response(description)),
                <<>>, "absent")
    ELSE IF RaiseForStatus(status) # "none"
    THEN Result(RaiseForStatus(status), <<"Provider request failed with status", status>>,
                <<>>, "absent")
    ELSE Result("none", <<>>, <<>>, description)

(* The adapters whose update_reservation opens with the same checks. *)
UpdateProviders == {"dvsportal", "the_hague", "amsterdam"}

(* An HTTP request sent by an operation. *)
Request(method, endpoint, payload) ==
    [method |-> method, endpoint |-> endpoint, payload |-> payload]

(* How an operation ends and the requests it has sent up to there. *)
Traced(out, http) == [out |-> out, http |-> http]

(* The result an adapter maps from the body of the last response. *)
FromResponse == Result("none", <<>>, <<>>, "response")

(* BaseProvider.reservation_update_possible: the manifest declares a       *)
(* reservation field the provider can update.                              *)
reservation_update_possible(fields) == fields # {}

(* The opening checks without the one of start_time and name. *)
update_reservation_arguments_end_only(fields, start_time, end_time, name) ==
    IF ~reservation_update_possible(fields)
    THEN Some(Result("ProviderError", <<"Reservation updates are not supported.">>,
                     <<>>, "absent"))
    ELSE IF end_time = None
    THEN Some(Result("ValidationError", <<"end_time is required.">>, <<>>, "absent"))
    ELSE None

(* The checks that open update_reservation in the three adapters: the      *)
(* exception raised, or None.                                              *)
update_reservation_arguments(fields, start_time, end_time, name) ==
    IF ~reservation_update_possible(fields)
    THEN Some(Result("ProviderError", <<"Reservation updates are not supported.">>,
                     <<>>, "absent"))
    ELSE IF start_time # None \/ name # None
    THEN Some(Result("ValidationError", <<"Only end_time can be updated.">>, <<>>, "absent"))
    ELSE IF end_time = None
    THEN Some(Result("ValidationError", <<"end_time is required.">>, <<>>, "absent"))
    ELSE None

(* the_hague Provider._require_id: the identifier, or None for the         *)
(* ValidationError it raises.                                              *)
require_id(value) ==
    IF value = "missing" THEN None
    ELSE IF Strip(Str(value)) = "" THEN None
    ELSE Some(Strip(Str(value)))

(* _normalize_datetime: the datetime in UTC with the microseconds dropped. *)
normalize_datetime(value) == [local |-> value.local - value.offset, offset |-> 0]

(* update_reservation of The Hague and Amsterdam: the checks, then one     *)
(* PATCH with the new end time.  (Amsterdam lists the reservations after   *)
(* it when the response carries none; that request is not followed.)       *)
update_reservation(p, fields, reservation_id, start_time, end_time, name) ==
    LET bad == update_reservation_arguments(fields, start_time, end_time, name)
    IN  IF bad # None THEN Traced(Val(bad), <<>>)
        ELSE IF require_id(reservation_id) = None
        THEN Traced(Result("ValidationError", <<"reservation_id is required.">>,
                           <<>>, "absent"), <<>>)
        ELSE Traced(FromResponse,
                    <<Request("PATCH", "reservation",
                              <<Val(require_id(reservation_id)),
                                format_utc_timestamp(normalize_datetime(Val(end_time)))>>)>>)

(* Bound: the latest second of a DVS Portal reservation or new end time. *)
MaxSecond == 120

(* Instants in seconds, half a minute apart. *)
Seconds == {sec \in 0..MaxSecond : sec % 30 = 0}

(* The reservation the DVS Portal backend lists, its times in seconds. *)
DvsReservations ==
    {r \in [id : {"r1"}, start_time : Seconds, end_time : Seconds] :
        r.end_time > r.start_time}

(* The new end time a caller gives: an aware datetime, in seconds. *)
DvsEndTimes == [local : Seconds, offset : {0}]

(* The canonical UTC string of an instant, as the mapped Reservation holds it. *)
CanonicalText(instant) == [text |-> "aware", local |-> instant, offset |-> 0]

(* dvsportal Provider.update_reservation.  existing is the reservation the *)
(* fetched permit lists, defaults tells whether the permit media defaults  *)
(* are cached after the fetch.                                             *)
dvs_update_reservation(fields, reservation_id, start_time, end_time, name, existing, defaults) ==
    LET bad == update_reservation_arguments(fields, start_time, end_time, name)
        reservation_id_value == Strip(coerce_id(reservation_id))
        fetched == <<Request("POST", "getbase", <<>>)>>
    IN  IF bad # None THEN Traced(Val(bad), <<>>)
        ELSE IF reservation_id_value = ""
        THEN Traced(Result("ValidationError", <<"reservation_id is required.">>,
                           <<>>, "absent"), <<>>)
        ELSE IF existing.id # reservation_id_value
        THEN Traced(Result("ValidationError", <<"reservation_id was not found.">>,
                           <<>>, "absent"), fetched)
        ELSE IF ~defaults
        THEN Traced(Result("ProviderError", <<"Permit media defaults are missing.">>,
                           <<>>, "absent"), fetched)
        ELSE
        LET end_dt == normalize_datetime(Val(end_time))
            existing_start_dt == parse_timestamp(CanonicalText(existing.start_time))
            existing_end_dt == parse_timestamp(CanonicalText(existing.end_time))
            checked == validate_reservation_times(Val(existing_start_dt), end_dt, TRUE)
            delta_seconds == end_dt.local - Val(existing_end_dt).local
            minutes_delta == delta_seconds \div 60
        IN  IF checked.raised # "none"
            THEN Traced(Result(checked.raised, checked.message, <<>>, "absent"), fetched)
            ELSE IF delta_seconds % 60 # 0
            THEN Traced(Result("ValidationError",
                               <<"end_time must be aligned to whole minutes.">>,
                               <<>>, "absent"), fetched)
            ELSE Traced(FromResponse,
                        fetched \o <<Request("POST", "reservation/update",
                                             <<minutes_delta, reservation_id_value>>)>>)

(* The plates of the favorites a list_favorites call maps: normalized by   *)
(* the mapper, at most two of them.                                        *)
NormalPlates == {StripPlate(plate) : plate \in Plates} \ {<<>>}
FavoriteLists ==
    {<<>>} \cup {<<q>> : q \in NormalPlates} \cup {<<<<"A">>, q>> : q \in NormalPlates}

(* The duplicate check looking at the first favorite only. *)
is_favorite_first(favorites, normalized_plate) ==
    favorites # <<>> /\ favorites[1] = normalized_plate

(* The loop of add_favorite over the fetched favorites: one of them has    *)
(* the normalized plate.                                                   *)
is_favorite(favorites, normalized_plate) ==
    \E i \in DOMAIN favorites : favorites[i] = normalized_plate

(* add_favorite of the DVS Portal and The Hague.  favorites are the plates *)
(* of the list fetched by the call, defaults tells whether the DVS Portal  *)
(* permit media defaults are cached after that fetch.                      *)
add_favorite(p, license_plate, name, favorites, defaults) ==
    LET normalized_plate == normalize_license_plate(license_plate)
        listing == IF p = "the_hague" THEN <<Request("GET", "favorite", <<>>)>>
                   ELSE <<Request("POST", "getbase", <<>>)>>
    IN  IF normalized_plate = None
        THEN Traced(Result("ValidationError",
                           <<"License plate is empty after normalization.">>,
                           <<>>, "absent"), <<>>)
        ELSE IF is_favorite(favorites, Val(normalized_plate))
        THEN Traced(Result("ValidationError", <<"license_plate is already a favorite.">>,
                           <<>>, "absent"), listing)
        ELSE IF p = "dvsportal" /\ ~defaults
        THEN Traced(Result("ProviderError", <<"Permit media defaults are missing.">>,
                           <<>>, "absent"), listing)
        ELSE Traced(FromResponse,
                    listing \o
                    <<Request("POST", IF p = "the_hague" THEN "favorite" ELSE "favorite/upsert",
                              [license_plate |-> Val(normalized_plate),
                               name |-> IF name # None THEN Val(name)
                                        ELSE Val(normalized_plate)])>>)

(* dvsportal Provider._select_favorite on the plates of the mapped         *)
(* favorites: the favorite with the plate, else the first one, else None.  *)
select_favorite(favorites, plate) ==
    IF \E i \in DOMAIN favorites : favorites[i] = plate THEN Some(plate)
    ELSE IF favorites # <<>> THEN Some(favorites[1])
    ELSE None

(* Bound: the latest hour of a timestamp the DVS Portal backend sends. *)
MaxHour == 9

(* The provider's zone (API_TIMEZONE, Europe/Amsterdam) on a time line of  *)
(* hours: one hour ahead of UTC, two hours ahead between the UTC instants  *)
(* spring and fall.                                                        *)
ProviderZone == [std |-> 1, dst |-> 2, spring |-> 2, fall |-> 6]

(* The timestamps the backend may send: without offset, with an offset,    *)
(* with a Z suffix, not a timestamp, blank.                                *)
ProviderTimestamps ==
    [text : {"naive"}, local : 0..MaxHour, offset : {0}]
    \cup [text : {"aware"}, local : 0..MaxHour, offset : {0, 1, 2}]
    \cup [text : {"Z"}, local : 0..MaxHour, offset : {0}]
    \cup [text : {"invalid", "empty"}, local : {0}, offset : {0}]

(* The offset of a local time with fold=1: at a transition, the offset     *)
(* that holds after it.                                                    *)
utcoffset_fold1(zone, local) ==
    IF local < zone.spring + zone.std THEN zone.std
    ELSE IF local < zone.fall + zone.std THEN zone.dst
    ELSE zone.std

(* ZoneInfo.utcoffset of a local time with fold=0: at a transition, in the *)
(* gap as in the repeated hour, the offset that held before it.            *)
utcoffset(zone, local) ==
    IF local < zone.spring + zone.dst THEN zone.std
    ELSE IF local < zone.fall + zone.dst THEN zone.dst
    ELSE zone.std

(* dvsportal Provider._parse_provider_timestamp: the canonical UTC         *)
(* timestamp, or None for the ValidationError it raises.                   *)
parse_provider_timestamp(value) ==
    IF ~IsString(value) THEN None
    ELSE IF value.text = "empty" THEN None
    ELSE IF value.text = "Z"
    THEN Some(format_utc_timestamp(Val(parse_timestamp(value))))
    ELSE IF value.text = "invalid" THEN None
    ELSE IF value.text = "naive"
    THEN Some(format_utc_timestamp([local |-> value.local,
                                    offset |-> utcoffset(ProviderZone, value.local)]))
    ELSE Some(format_utc_timestamp([local |-> value.local, offset |-> value.offset]))

(* Bound: the number of (block, is_chargeable) pairs of a zone validity. *)
MaxEntries == 3

(* The zone validity blocks a mapper pairs with the chargeable flag. *)
Blocks == {Returned("ZoneValidityBlock", "b1", 0, 1), Returned("ZoneValidityBlock", "b2", 1, 2)}
ZoneEntries == UNION {[1..n -> Blocks \X BOOLEAN] : n \in 0..MaxEntries}

(* The comprehension collecting the chargeable blocks from the last pair   *)
(* to the first.                                                           *)
RECURSIVE filter_chargeable_reversed(_)
filter_chargeable_reversed(entries) ==
    IF entries = <<>> THEN <<>>
    ELSE filter_chargeable_reversed(Tail(entries))
            \o (IF Head(entries)[2] THEN <<Head(entries)[1]>> ELSE <<>>)

(* util.filter_chargeable_zone_validity:                                   *)
(* [block for block, is_chargeable in entries if is_chargeable]            *)
RECURSIVE filter_chargeable_zone_validity(_)
filter_chargeable_zone_validity(entries) ==
    IF entries = <<>> THEN <<>>
    ELSE (IF Head(entries)[2] THEN <<Head(entries)[1]>> ELSE <<>>)
            \o filter_chargeable_zone_validity(Tail(entries))

(* The HTTP requests of an operation whose requests are not followed here. *)
NotTraced == <<"not traced">>

NoResult == [op |-> "none", provider |-> "none", input |-> <<>>,
             out |-> Result("none", <<>>, <<>>, "absent"), http |-> <<>>, value |-> <<>>]

ResultInit == rv = NoResult

(* The operation is called with the input and ends with the result out,   *)
(* having sent the requests http; value is what a function of util.py      *)
(* returned.                                                               *)
Ended(op, p, input, out, http, value) ==
    /\ rv.op = "none"
    /\ rv' = [op |-> op, provider |-> p, input |-> input, out |-> out, http |-> http,
              value |-> value]
    /\ UNCHANGED notResult

CalledHttp(op, p, input, out, http) == Ended(op, p, input, out, http, <<>>)

Called(op, p, input, out) == CalledHttp(op, p, input, out, NotTraced)

(* add_favorite *)
AddFavorite(p, license_plate, name, favorites, defaults) ==
    LET done == add_favorite(p, license_plate, name, favorites, defaults)
    IN  CalledHttp("add_favorite", p, <<license_plate, name, favorites, defaults>>,
                   done.out, done.http)

(* dvsportal add_favorite from the answer to its upsert on; the plate of   *)
(* the Favorite it returns is recorded as the value.                        *)
AddFavoriteReturns(normalized_plate, returned) ==
    LET favorite == select_favorite(returned, normalized_plate)
    IN  Ended("add_favorite returns", "dvsportal", <<normalized_plate, returned>>,
              IF favorite = None
              THEN Result("ProviderError", <<"Favorite was not returned by the provider.">>,
                          <<>>, "absent")
              ELSE Result("none", <<>>, <<>>, "absent"),
              NotTraced, favorite)

(* dvsportal Provider._parse_provider_timestamp; the string it returns is  *)
(* recorded as both times of a Timestamp object.                           *)
ParseProviderTimestamp(value) ==
    Called("_parse_provider_timestamp", "dvsportal", <<value>>,
           IF parse_provider_timestamp(value) = None
           THEN Result("ValidationError", <<"Provider timestamp">>, <<>>, "absent")
           ELSE Result("none", <<>>,
                       <<Returned("Timestamp", "value",
                                  Val(parse_provider_timestamp(value)),
                                  Val(parse_provider_timestamp(value)))>>, "absent"))

(* util.validate_reservation_times with require_both=True; the pair it     *)
(* returns is recorded as two Timestamp objects.                           *)
ValidateReservationTimes(start_time, end_time) ==
    LET checked == validate_reservation_times(start_time, end_time, TRUE)
    IN  Called("validate_reservation_times", "util", <<start_time, end_time>>,
               IF checked.raised # "none"
               THEN Result(checked.raised, checked.message, <<>>, "absent")
               ELSE Result("none", <<>>,
                           <<Returned("Timestamp", "start", Val(checked.times[1]),
                                      Val(checked.times[1])),
                             Returned("Timestamp", "end", Val(checked.times[2]),
                                      Val(checked.times[2]))>>, "absent"))

(* util.filter_chargeable_zone_validity *)
FilterChargeableZoneValidity(entries) ==
    Called("filter_chargeable_zone_validity", "util", <<entries>>,
           Result("none", <<>>, filter_chargeable_zone_validity(entries), "absent"))

(* util.normalize_license_plate, applied to a plate and then to what it    *)
(* returned for that plate.                                                *)
NormalizeLicensePlate(plate) ==
    LET first == normalize_license_plate(plate)
        second == IF first = None THEN None ELSE normalize_license_plate(Val(first))
    IN  Ended("normalize_license_plate", "util", <<plate>>,
              IF first = None
              THEN Result("ValidationError",
                          <<"License plate is empty after normalization.">>, <<>>, "absent")
              ELSE Result("none", <<>>, <<>>, "absent"),
              NotTraced, <<first, second>>)

(* update_reservation of the DVS Portal *)
DvsUpdateReservation(fields, reservation_id, start_time, end_time, name, existing, defaults) ==
    LET done == dvs_update_reservation(fields, reservation_id, start_time, end_time, name,
                                       existing, defaults)
    IN  CalledHttp("update_reservation", "dvsportal",
                   <<fields, reservation_id, start_time, end_time, name, existing, defaults>>,
                   done.out, done.http)

(* update_reservation of The Hague and Amsterdam *)
UpdateReservation(p, fields, reservation_id, start_time, end_time, name) ==
    LET done == update_reservation(p, fields, reservation_id, start_time, end_time, name)
    IN  CalledHttp("update_reservation", p,
                   <<fields, reservation_id, start_time, end_time, name>>,
                   done.out, done.http)

(* list_reservations on a response with one reservation *)
ListReservations(p, raw, item) ==
    Called("list_reservations", p, <<raw, item>>, map_reservation(p, raw, item))

(* get_permit *)
GetPermit(p, code, zone_code) ==
    Called("get_permit", p, <<code, zone_code>>, map_permit(p, code, zone_code))

(* start_reservation *)
StartReservation(p, start_time, end_time) ==
    Called("start_reservation", p, <<start_time, end_time>>,
           start_reservation(p, start_time, end_time))

(* end_reservation *)
EndReservation(p, reservation_id, listed, end_time) ==
    LET done == end_reservation_by_id(p, reservation_id, listed, end_time)
    IN  CalledHttp("end_reservation", p, <<reservation_id, listed, end_time>>,
                   done.out, done.http)

(* the_hague Provider._request *)
TheHagueRequest(status, description) ==
    Called("_request", "the_hague", <<status, description>>,
           the_hague_request(status, description))

ResultNext ==
    \/ \E p \in ResultProviders, raw \in RawIds, item \in BackendReservations :
          ListReservations(p, raw, item)
    \/ \E p \in ResultProviders, code \in RawIds, zone_code \in RawIds :
          GetPermit(p, code, zone_code)
    \/ \E p \in ResultProviders, start_time \in Datetimes, end_time \in Datetimes :
          StartReservation(p, start_time, end_time)
    \/ \E p \in ResultProviders, reservation_id \in {"r1", "r2", " r1 ", " "},
          listed \in {<<>>} \cup {<<r>> : r \in BackendReservations}, end_time \in Datetimes :
          EndReservation(p, reservation_id, listed, end_time)
    \/ \E status \in {200, 400, 401, 500}, description \in Descriptions :
          TheHagueRequest(status, description)
    \/ \E p \in ResultProviders, license_plate \in Plates, name \in FavoriteNames,
          favorites \in FavoriteLists, defaults \in BOOLEAN :
          AddFavorite(p, license_plate, name, favorites, defaults)
    \/ \E normalized_plate \in NormalPlates, returned \in FavoriteLists :
          AddFavoriteReturns(normalized_plate, returned)
    \/ \E value \in ProviderTimestamps \cup {None} : ParseProviderTimestamp(value)
    \/ \E start_time \in Datetimes \cup TimestampTexts \cup {None},
          end_time \in Datetimes \cup TimestampTexts \cup {None} :
          ValidateReservationTimes(start_time, end_time)
    \/ \E entries \in ZoneEntries : FilterChargeableZoneValidity(entries)
    \/ \E plate \in Plates : NormalizeLicensePlate(plate)
    \/ \E p \in UpdateProviders \ {"dvsportal"},
          fields \in SUBSET RESERVATION_UPDATE_FIELDS, reservation_id \in {"r1", " ", "missing"},
          start_time \in {None, Some([local |-> 0, offset |-> 0])},
          end_time \in {None} \cup {Some(d) : d \in Datetimes}, name \in {None, Some("Car")} :
          UpdateReservation(p, fields, reservation_id, start_time, end_time, name)
    \/ \E fields \in {{}, {"end_time"}}, reservation_id \in {"r1", "r2", " "},
          start_time \in {None, Some([local |-> 0, offset |-> 0])},
          end_time \in {None} \cup {Some(d) : d \in DvsEndTimes}, name \in {None, Some("Car")},
          existing \in DvsReservations, defaults \in BOOLEAN :
          DvsUpdateReservation(fields, reservation_id, start_time, end_time, name,
                               existing, defaults)

ResultUnused == rv = NoResult

RestUnused == FavoriteUnused /\ ClientUnused /\ ResultUnused

SpecResultInit ==
    ResultInit /\ LoaderUnused /\ RequestUnused /\ DvsInit /\ FavoriteUnused /\ ClientUnused
SpecResult == SpecResultInit /\ [][ResultNext]_vars

SpecFavoriteInit ==
    FavoriteInit /\ LoaderUnused /\ RequestUnused /\ DvsInit /\ ClientUnused /\ ResultUnused
SpecFavorite == SpecFavoriteInit /\ [][FavoriteNext]_vars

SpecClientInit ==
    ClientInit /\ LoaderUnused /\ RequestUnused /\ DvsInit /\ FavoriteUnused /\ ResultUnused
SpecClient == SpecClientInit /\ [][ClientNext]_vars

SpecDvsInit == DvsInit /\ LoaderUnused /\ RequestUnused /\ RestUnused
SpecDvs == SpecDvsInit /\ [][DvsNext]_vars

(* The event loop runs its ready tasks in turn, so a task that is ready     *)
(* again and again is run; every awaited HTTP call completes; asyncio.Lock  *)
(* wakes its waiters in turn.  Calling a new operation is left to the       *)
(* caller.                                                                  *)
(* Task A runs any operation while task B competes for the guard with the   *)
(* two favorite operations: one holds the guard over nested guards, the     *)
(* other releases it before its request.                                    *)
LiveOps(t) == IF t = "A" THEN DvsOps ELSE {"add_favorite", "remove_favorite"}

DvsLiveNext ==
    \E t \in Tasks :
        \/ \E op \in LiveOps(t), with_id \in BOOLEAN : DvsCall(t, op, with_id)
        \/ TaskStep(t)

SpecDvsFair ==
    /\ SpecDvsInit /\ [][DvsLiveNext]_vars
    /\ \A t \in Tasks : SF_vars(TaskStep(t))

(***************************************************************************)
(* Specification of the request pipeline                                   *)
(***************************************************************************)
SpecRequestInit == RequestInit /\ LoaderUnused /\ DvsInit /\ RestUnused
SpecRequest == SpecRequestInit /\ [][RequestNext]_vars

(***************************************************************************)
(* Specifications of the manifest loader                                   *)
(***************************************************************************)

(* One caller at a time: load_manifests and clear_manifest_cache called in sequence. *)
LoaderSeqNext == LoaderStep("T1") \/ Tick \/ ChangeDisk({"none", "nopkg", "badjson"})
SpecLoaderInit == LoaderInit /\ RequestUnused /\ DvsInit /\ RestUnused
SpecLoader == SpecLoaderInit /\ [][LoaderSeqNext]_vars

(* Calls running in different threads (asyncio.to_thread). *)
LoaderThreadsNext == (\E t \in Threads : LoaderStep(t)) \/ ChangeDisk({"none", "nopkg"})
SpecLoaderThreads == SpecLoaderInit /\ [][LoaderThreadsNext]_vars

(* One caller, and manifests that are edited by hand between its calls. *)
EditManifests ==
    /\ \A t \in Threads : thr[t].pc = "idle"
    /\ ChangeDisk(Faults)
ManifestsNext == LoaderStep("T1") \/ EditManifests
SpecManifests == SpecLoaderInit /\ [][ManifestsNext]_vars

(***************************************************************************)
(* Claims about the manifest cache                                         *)
(***************************************************************************)

LoadDone(t) == thr[t].pc = "done" /\ thr[t].op = "load_manifests"

(* C4: after a manifest reload has failed, no later load_manifests call     *)
(* returns the manifests that were cached before the failed reload.         *)
C4_StaleNeverServed ==
    \A t \in Threads : LoadDone(t) => ~thr[t].servedStale

(* C5: load_manifests(cache_ttl=None) always reloads, never returns a value *)
(* taken from the cache and leaves nothing in the cache.                    *)
C5_NoTTLAlwaysReloads ==
    LoadDone("T1") /\ thr["T1"].cache_ttl = None /\ thr["T1"].result = "ok"
        => /\ ~thr["T1"].fromCache
           /\ thr["T1"].reloads = 1
           /\ MANIFEST_CACHE = None

(* C6: with cache_ttl = T, a call without refresh made while the cache is   *)
(* populated and the clock is strictly before the stored expiry returns the *)
(* cached list without calling iter_manifest_files; a call at or after the  *)
(* expiry, on an empty cache or with refresh reloads exactly once, and a    *)
(* successful reload stores what it returns with the expiry now + T.        *)
C6_CacheTTL ==
    LET c == thr["T1"] IN
    LoadDone("T1") /\ c.cache_ttl # None /\ Val(c.cache_ttl) >= 0 =>
        /\ c.reloads <= 1
        /\ c.fromCache =>
              /\ c.result = "ok"
              /\ c.reloads = 0
              /\ MANIFEST_CACHE = Some(c.value)
              /\ c.now < Val(MANIFEST_CACHE_EXPIRES_AT)
        /\ c.fromCache <=> (~c.refresh /\ c.cached0 /\ c.fresh0)
        /\ ~c.fromCache => c.reloads = 1
        /\ ~c.fromCache /\ c.result = "ok" =>
              /\ MANIFEST_CACHE = Some(c.value)
              /\ MANIFEST_CACHE_EXPIRES_AT = Some(c.now + Val(c.cache_ttl))

(* C6 witness: a call that found the cache expired and reloaded it. *)
C6_Witness ==
    LET c == thr["T1"] IN
    /\ LoadDone("T1") /\ c.cache_ttl = Some(MaxTTL) /\ ~c.refresh
    /\ c.cached0 /\ ~c.fresh0 /\ c.reloads = 1 /\ c.result = "ok"
    /\ MANIFEST_CACHE_EXPIRES_AT = Some(c.now + MaxTTL)

(* C7: every list a reader returns is the complete manifest set of one      *)
(* package version (the one cached before or the one newly loaded), never a *)
(* partially built or mixed list.                                           *)
C7_SnapshotsAreComplete ==
    \A t \in Threads :
        LoadDone(t) /\ thr[t].result = "ok"
            => \E v \in 1..MaxVersion : thr[t].value = CompleteSet(v)

(* C7 witness: a reader returned the cached set while another thread is in  *)
(* the middle of building a different one.                                  *)
C7_Witness ==
    \E t, u \in Threads :
        /\ t # u
        /\ LoadDone(t) /\ thr[t].fromCache
        /\ thr[u].pc = "read_file" /\ Len(thr[u].manifests) = 1
        /\ thr[u].manifests[1] # thr[t].value[1]

(***************************************************************************)
(* Claims about the request pipeline                                       *)
(***************************************************************************)

AuthenticatedRequest == rs.op = "request" /\ rs.allow_reauth

(* C1: a request of an authenticated operation that fails with 401/403      *)
(* causes exactly one reauthentication (one login handshake with the cached *)
(* credentials); the request is sent again once, after that login has       *)
(* succeeded; a second auth failure ends the call with AuthError, with no   *)
(* further reauthentication, login or retry.                                *)
C1_OneReauthOneRetry ==
    AuthenticatedRequest =>
        /\ rs.authFailures <= 2
        /\ rs.reauths = (IF rs.authFailures >= 1 THEN 1 ELSE 0)
        /\ rs.logins = rs.reauths
        /\ rs.pass <= 1
        /\ rs.pass = 1 <=> rs.loginOk
        /\ rs.authFailures = 2 =>
              /\ rs.pc = "done" /\ rs.result = "AuthError"
              /\ rs.pass = 1 /\ rs.reauths = 1 /\ rs.logins = 1

(* C1 witness: the retried request failed with an auth failure again. *)
C1_Witness ==
    /\ AuthenticatedRequest /\ provider = "dvsportal"
    /\ rs.pc = "done" /\ rs.result = "AuthError"
    /\ rs.authFailures = 2 /\ rs.reauths = 1 /\ rs.pass = 1

(* The attempts the transport retry policy permits for the call in progress. *)
PermittedAttempts ==
    IF rs.method = "GET" THEN (IF retry_arg < 0 THEN 0 ELSE retry_arg) + 1 ELSE 1

(* C8: one execution of BaseProvider._request makes at most retry_count + 1 *)
(* HTTP attempts for a GET (a negative retry_count counting as 0) and       *)
(* exactly one for any other method; an attempt is followed by another only *)
(* after a transport-level failure, and a transport failure of the last     *)
(* permitted attempt raises NetworkError.                                   *)
C8_TransportRetryBound ==
    provider = "base" /\ rs.op = "request" =>
        /\ Len(rs.hist) <= PermittedAttempts
        /\ \A i \in 1..(Len(rs.hist) - 1) : rs.hist[i] = "transport"
        /\ rs.pc = "request" /\ Len(rs.hist) > 0 => rs.hist[Len(rs.hist)] = "transport"
        /\ rs.pc = "done" => Len(rs.hist) >= 1
        /\ rs.pc = "done" /\ rs.method # "GET" => Len(rs.hist) = 1
        /\ rs.pc = "done" /\ rs.hist[Len(rs.hist)] = "transport" =>
              /\ rs.result = "NetworkError"
              /\ Len(rs.hist) = PermittedAttempts

(* C8 witness: a GET used its whole retry budget and failed with NetworkError. *)
C8_Witness ==
    /\ provider = "base" /\ rs.op = "request" /\ rs.method = "GET"
    /\ retry_arg = MaxRetry
    /\ rs.pc = "done" /\ rs.result = "NetworkError"
    /\ Len(rs.hist) = MaxRetry + 1

(* C9: a DVS non-GET request that receives 429 raises ProviderError at once, *)
(* without sleeping and without another HTTP attempt, whatever Retry-After.  *)
C9_MutatingRateLimitFailsAtOnce ==
    /\ provider = "dvsportal" /\ rs.op = "request" /\ rs.method # "GET"
    /\ Len(rs.hist) > 0 /\ rs.last.status = 429
    => /\ rs.pc = "done" /\ rs.result = "ProviderError"
       /\ Len(rs.hist) = 1
       /\ rs.slept = 0

(* The sleep the rate-limit rule prescribes for a Retry-After header that is *)
(* absent, zero, unparsable or a positive integer.                           *)
PrescribedSleep(retry_after) ==
    IF retry_after = Some("2") THEN 2 ELSE 0

(* C10: a DVS GET that receives 429 sleeps the Retry-After seconds (not at   *)
(* all when the header is absent, zero or unparsable); with budget left the  *)
(* next attempt follows; the call returns the body of the first 2xx          *)
(* response; 429s and transport failures share the budget of                 *)
(* retry_count + 1 attempts of one run of _request_with_backoff.             *)
C10_RateLimitedGetBacksOff ==
    provider = "dvsportal" /\ rs.op = "request" /\ rs.method = "GET" =>
        /\ Len(rs.hist) <= retry_count + 1
        /\ Len(rs.hist) > 0 /\ rs.last.status = 429 /\ rs.last.retry_after # Some("-1")
              => rs.slept = PrescribedSleep(rs.last.retry_after)
        /\ Len(rs.hist) > 0 /\ rs.last.status = 429 /\ Len(rs.hist) < retry_count + 1
              => rs.pc = "request" /\ rs.attempt = Len(rs.hist)
        /\ rs.pc = "done" /\ rs.result = "ok" =>
              /\ rs.data = Len(rs.hist)
              /\ rs.hist[Len(rs.hist)] = "success"
              /\ \A i \in 1..(Len(rs.hist) - 1) : rs.hist[i] \in {"rate_limit", "transport"}

(* C10 witness: 429 with Retry-After: 2, two seconds of sleep, then the      *)
(* second response's data.                                                   *)
C10_Witness ==
    /\ provider = "dvsportal" /\ rs.op = "request" /\ rs.method = "GET"
    /\ rs.pc = "done" /\ rs.result = "ok"
    /\ rs.hist = <<"rate_limit", "success">>
    /\ rs.sleptTotal = 2 /\ rs.data = 2


(***************************************************************************)
(* Claims about the DVS Portal operation guard, under SpecDvs              *)
(***************************************************************************)

(* Task t has fetched the aggregate, or sent its mutating POST, in a        *)
(* mutating operation that has not finished yet.                            *)
InSequence(t) == tk[t].seq # "none"

(* C2: whatever the interleaving of concurrent DVS Portal operations, each  *)
(* operation's sequence of fetching the aggregate, mutating and re-deriving *)
(* the defaults runs inside the operation guard: the task in the sequence   *)
(* owns the guard, at most one sequence is in flight, and no other task     *)
(* sends an HTTP request between a task's fetch and its mutating POST.      *)
C2_SequenceInsideGuard ==
    /\ \A t \in Tasks : InSequence(t) => dvs.lock_owner = Some(t)
    /\ Cardinality({t \in Tasks : InSequence(t)}) <= 1
    /\ ~interleaved

(* C3: every write to the token, the authorization header, the cached       *)
(* credentials or the permit-media defaults of a shared DVS Portal instance *)
(* is made by a task that holds the operation lock at that moment.          *)
C3_WritesHoldLock == lastWrite.guarded


(***************************************************************************)
(* Claims about error kinds and authentication, under SpecRequest          *)
(***************************************************************************)

(* The call in progress has used every permitted attempt and each of them   *)
(* was answered with HTTP 429.                                              *)
BudgetExhaustedByRateLimit ==
    /\ rs.op = "request" /\ rs.pc = "done"
    /\ Len(rs.hist) > 0 /\ Len(rs.hist) = rs.attempts
    /\ \A i \in 1..Len(rs.hist) : rs.hist[i] = "rate_limit"

(* C11: a request whose every permitted attempt received HTTP 429 fails     *)
(* with RateLimitError, whose error_code is 'rate_limit' and not the        *)
(* 'provider_error' of a generic ProviderError.                             *)
C11_RateLimitErrorKind ==
    BudgetExhaustedByRateLimit =>
        /\ rs.result = "RateLimitError"
        /\ ErrorCode(rs.result) = "rate_limit"


(* C12: an operation that requires authentication, called with valid        *)
(* arguments on an instance of any adapter that never logged in and has no  *)
(* cached credentials, raises AuthError and sends no HTTP request.          *)
C12_UnauthenticatedAuthError ==
    rs.operation # "none" /\ ~auth.credentials =>
        /\ rs.pc = "done" /\ rs.result = "AuthError"
        /\ rs.hist = <<>> /\ rs.logins = 0 /\ ~rs.ensured


(* The call started on an authenticated instance, its first pass was        *)
(* rejected with 401/403, the reauthentication login succeeded and the      *)
(* retried request was answered with a readable 2xx response.               *)
ReauthenticatedSuccess ==
    /\ AuthenticatedRequest /\ ~rs.ensured
    /\ rs.pc = "done" /\ rs.pass = 1
    /\ Len(rs.hist) > 0 /\ rs.hist[Len(rs.hist)] = "success" /\ rs.last.json

(* C13: after a 401/403, a successful reauthentication login and a 2xx      *)
(* answer to the retried request, the call returns the retried response's   *)
(* result, exactly one login handshake was performed during the call, and   *)
(* the retried request carried the header of the token that login issued,   *)
(* not the rejected one.                                                    *)
C13_ReauthSucceeds ==
    ReauthenticatedSuccess =>
        /\ rs.result = "ok" /\ rs.data = Len(rs.hist)
        /\ rs.logins = 1 /\ rs.reauths = 1
        /\ rs.header = RequestHeader(provider, auth)
        /\ provider # "the_hague" =>
              /\ rs.header = Some(issued)
              /\ rs.header # rs.rejected

(* C13 witness: a DVS Portal request rejected with the first token and      *)
(* answered with the second.                                                *)
C13_Witness ==
    /\ ReauthenticatedSuccess /\ provider = "dvsportal"
    /\ rs.result = "ok" /\ rs.rejected = Some(1) /\ rs.header = Some(2)


(***************************************************************************)
(* Claims about the favorite-update fallback, under SpecFavorite           *)
(***************************************************************************)

(* The manifest declares no field of a favorite as natively updatable. *)
NoNativeFavoriteUpdate == uf.manifest.favorite_update_fields = {}

(* The call has a license plate that survives normalization. *)
UsablePlate ==
    /\ uf.call.license_plate # None
    /\ normalize_license_plate(Val(uf.call.license_plate)) # None

RemoveThenAdd ==
    << [method |-> "remove_favorite", id |-> uf.call.favorite_id,
        license_plate |-> None, name |-> None],
       [method |-> "add_favorite", id |-> None,
        license_plate |-> normalize_license_plate(Val(uf.call.license_plate)),
        name |-> uf.call.name] >>

(* C14: on a provider whose manifest declares no native favorite-update    *)
(* support, update_favorite with a license plate awaits                    *)
(* remove_favorite(favorite_id) once, then add_favorite(normalized plate,  *)
(* name) once, never _update_favorite_native, and returns the Favorite     *)
(* that add_favorite produced; on a provider declaring native support for  *)
(* both fields it awaits _update_favorite_native and nothing else.         *)
C14_FallbackRemoveThenAdd ==
    uf.call.called =>
        /\ NoNativeFavoriteUpdate /\ UsablePlate =>
              /\ uf.call.raised \in {"none", "ProviderError"}
              /\ Len(uf.call.calls) >= 1
              /\ uf.call.calls = SubSeq(RemoveThenAdd, 1, Len(uf.call.calls))
              /\ uf.call.raised = "none" =>
                    /\ uf.call.calls = RemoveThenAdd
                    /\ uf.call.favorite # None
                    /\ Val(uf.call.favorite).id # uf.call.favorite_id
                    /\ Some(Val(uf.call.favorite).license_plate) =
                           normalize_license_plate(Val(uf.call.license_plate))
        /\ uf.manifest.favorite_update_fields = FAVORITE_UPDATE_FIELDS =>
              /\ uf.call.raised = "none"
              /\ Len(uf.call.calls) = 1
              /\ uf.call.calls[1].method = "_update_favorite_native"

(* C15: in the fallback, a call without a license plate, or with one that  *)
(* is empty after normalization, raises ValidationError before any adapter *)
(* method is awaited.                                                      *)
C15_FallbackRequiresPlate ==
    uf.call.called /\ NoNativeFavoriteUpdate /\ ~UsablePlate =>
        /\ uf.call.raised = "ValidationError"
        /\ uf.call.calls = <<>>


(***************************************************************************)
(* Claims about the reentrancy of the operation guard, under SpecDvs       *)
(***************************************************************************)

(* The guards task t is inside: the outermost took the lock, the others    *)
(* were entered by the owner.                                               *)
HoldsGuard(t) == tk[t].guards # <<>>

(* C16: a task that holds the operation guard enters a nested guard        *)
(* without waiting on the lock; while it is inside any guard, nested ones  *)
(* exited or not, the lock stays locked and owned by it, with the depth of *)
(* its nesting; the lock is free exactly when no task is inside a guard;   *)
(* another task that requests the guard meanwhile waits outside.           *)
C16_GuardReentrant ==
    /\ \A t \in Tasks :
          /\ HoldsGuard(t) =>
                /\ operation_lock.locked
                /\ dvs.lock_owner = Some(t)
                /\ dvs.lock_depth = Len(tk[t].guards)
                /\ tk[t].guards[1] = "outer"
                /\ \A i \in 2..Len(tk[t].guards) : tk[t].guards[i] = "nested"
                /\ tk[t].status # "wait_lock"
                /\ \A u \in Tasks \ {t} : ~HoldsGuard(u)
          /\ tk[t].status = "wait_lock" =>
                /\ ~HoldsGuard(t)
                /\ \E i \in 1..Len(operation_lock.waiters) : operation_lock.waiters[i] = t
    /\ operation_lock.locked <=> \E t \in Tasks : HoldsGuard(t)
    /\ dvs.lock_owner = None <=> \A t \in Tasks : ~HoldsGuard(t)
    /\ dvs.lock_depth = 0 <=> \A t \in Tasks : ~HoldsGuard(t)

(* remove_favorite of task A is back from its nested list_favorites, which *)
(* logged in again inside a third guard, and still holds the lock while    *)
(* task B waits for it.                                                     *)
C16_Witness ==
    /\ tk["A"].op = "remove_favorite"
    /\ tk["A"].guards = <<"outer">>
    /\ tk["A"].cont # <<>> /\ Head(tk["A"].cont) = "check_defaults"
    /\ tk["A"].pass = 1
    /\ dvs.lock_owner = Some("A") /\ dvs.lock_depth = 1
    /\ operation_lock.locked
    /\ tk["B"].status = "wait_lock"
    /\ operation_lock.waiters = <<"B">>


(***************************************************************************)
(* Claims about the Client facade, under SpecClient                        *)
(***************************************************************************)

ClientClosed == cl.last \in {"aclose", "__aexit__"}

(* C17: whatever operations were called on the Client, a session the       *)
(* caller supplied was never closed by the Client; a session the Client    *)
(* created is open only while it is the one the Client uses, and every     *)
(* such session is closed once aclose or the exit of the async context has *)
(* run.                                                                    *)
C17_SessionOwnership ==
    \A i \in DOMAIN cl.sessions :
        /\ cl.sessions[i].made_by = "caller" => cl.sessions[i].closed_by # "client"
        /\ cl.sessions[i].made_by = "client" =>
              /\ ~cl.sessions[i].closed => cl.session = Some(i)
              /\ ClientClosed => cl.sessions[i].closed /\ cl.sessions[i].closed_by = "client"

(* The Client was closed, used again and closed again: both sessions it    *)
(* created are closed.                                                     *)
C17_Witness ==
    /\ ClientClosed
    /\ Len(cl.sessions) = 2
    /\ Len(cl.providers) = 2
    /\ \A i \in DOMAIN cl.sessions :
          cl.sessions[i].made_by = "client" /\ cl.sessions[i].closed


(***************************************************************************)
(* Claims about what the adapters return, under SpecResult                 *)
(***************************************************************************)

(* C18: every Reservation an adapter returns from start_reservation,       *)
(* end_reservation or list_reservations ends strictly after it starts,     *)
(* the one end_reservation builds from the existing start_time and the     *)
(* caller's end_time included.                                             *)
C18_ReservationEndAfterStart ==
    \A i \in DOMAIN rv.out.objects :
        rv.out.objects[i].kind = "Reservation" =>
            rv.out.objects[i].end_time > rv.out.objects[i].start_time

(* The response item carried no identifier, or an empty or blank one. *)
IdentifierMissing ==
    \/ rv.op = "list_reservations" /\ Strip(coerce_id(rv.input[1])) = ""
    \/ rv.op = "get_permit" /\ rv.provider = "the_hague"
          /\ Strip(coerce_id(rv.input[1])) = ""
    \/ rv.op = "get_permit" /\ rv.provider = "dvsportal"
          /\ Strip(coerce_id(rv.input[1])) = "" /\ Strip(coerce_id(rv.input[2])) = ""

(* C19: no Permit, Reservation or Favorite is returned with an empty id,   *)
(* and a response item without an identifier, or with an empty one, makes  *)
(* the operation raise ProviderError.                                      *)
C19_NoEmptyIdentifier ==
    /\ \A i \in DOMAIN rv.out.objects : rv.out.objects[i].id # ""
    /\ IdentifierMissing => rv.out.raised = "ProviderError" /\ rv.out.objects = <<>>

(* C20: a response of The Hague whose body carries the error code pv76,    *)
(* with status 400 or with status 200, raises ProviderError with the       *)
(* message for that code, and the body is not handed back as data.        *)
C20_EmbeddedErrorCode ==
    (/\ rv.op = "_request"
     /\ rv.input[1] \in {200, 400}
     /\ normalize_error_code(rv.input[2]) = "pv76") =>
        /\ rv.out.raised = "ProviderError"
        /\ rv.out.message = <<"Provider error", "pv76", "No paid parking at this time">>
        /\ rv.out.body = "absent"


(***************************************************************************)
(* Claims about termination, under SpecDvsFair                             *)
(***************************************************************************)

GenericResponseStep ==
    /\ rs.pc = "request"
    /\ rs' # rs
    /\ rs'.last.status # 0
    /\ \/ provider = "base"
       \/ provider = "dvsportal" /\ rs'.last.status # 429

(* C22: an HTTP response ends the transport loop at once, also for a GET   *)
(* with attempts left: a 2xx response with a decodable body returns it, a  *)
(* 2xx response with an undecodable body raises ProviderError, 401 and 403 *)
(* raise AuthError (which the reauthentication loop around the transport   *)
(* loop may catch on its first pass), and every other status raises        *)
(* ProviderError with the status code in its message.                      *)
C22_StatusMapping ==
    [][GenericResponseStep =>
        LET resp == rs'.last IN
        /\ rs'.attempt = rs.attempt
        /\ rs'.pc # "request"
        /\ CASE 200 <= resp.status /\ resp.status < 300 /\ resp.json ->
                    /\ rs'.pc = "done"
                    /\ rs'.result = "ok"
                    /\ rs'.data = Len(rs'.hist)
             [] 200 <= resp.status /\ resp.status < 300 /\ ~resp.json ->
                    /\ rs'.pc = "done"
                    /\ rs'.result = "ProviderError"
                    /\ rs'.message = <<"Response did not contain valid JSON.">>
             [] resp.status \in {401, 403} ->
                    \/ rs'.pc = "done" /\ rs'.result = "AuthError"
                    \/ rs.allow_reauth /\ rs.pass = 0 /\ rs'.pc = "login"
             [] OTHER ->
                    /\ rs'.pc = "done"
                    /\ rs'.result = "ProviderError"
                    /\ Len(rs'.message) = 3
                    /\ rs'.message[2] = resp.status
      ]_vars

(* A GET of the base provider whose first attempt failed in the transport  *)
(* and whose second attempt was answered with status 500: ProviderError    *)
(* although an attempt is left.                                            *)
C22_Witness ==
    /\ provider = "base"
    /\ rs.pc = "done"
    /\ rs.method = "GET"
    /\ rs.hist = <<"transport", "error">>
    /\ rs.attempts = 3
    /\ rs.last.status = 500
    /\ rs.result = "ProviderError"
    /\ rs.message = <<"Provider request failed with status ", 500, ".">>

(***************************************************************************)
(* Claims about the reservation and favorite operations, under SpecResult  *)
(***************************************************************************)

(* An update_reservation call that gives start_time or name, or no         *)
(* end_time.  The input is <<fields, reservation_id, start_time, end_time, *)
(* name, ...>>.                                                            *)
UpdatesMoreThanEnd ==
    /\ rv.op = "update_reservation"
    /\ \/ rv.input[3] # None
       \/ rv.input[5] # None
       \/ rv.input[4] = None

EndRequests ==
    {i \in DOMAIN rv.http :
        rv.http[i].method = "DELETE" \/ rv.http[i].endpoint = "reservation/end"}

(* The id by which the adapter looks the reservation up. *)
LookedUpId ==
    IF rv.provider = "the_hague" THEN Strip(Str(rv.input[1])) ELSE Str(rv.input[1])

CreateRequests ==
    {i \in DOMAIN rv.http :
        rv.http[i].method = "POST" /\ rv.http[i].endpoint \in {"favorite", "favorite/upsert"}}

(* add_favorite was called with a plate that normalizes, and the fetched   *)
(* favorites hold that normalized plate (or do not).                       *)
AddsListedPlate ==
    /\ rv.op = "add_favorite"
    /\ normalize_license_plate(rv.input[1]) # None
    /\ \E i \in DOMAIN rv.input[3] :
          rv.input[3][i] = Val(normalize_license_plate(rv.input[1]))

AddsNewPlate ==
    /\ rv.op = "add_favorite"
    /\ normalize_license_plate(rv.input[1]) # None
    /\ \A i \in DOMAIN rv.input[3] :
          rv.input[3][i] # Val(normalize_license_plate(rv.input[1]))

OneCreateRequest ==
    /\ Cardinality(CreateRequests) = 1
    /\ \A i \in CreateRequests :
          rv.http[i].payload.license_plate = Val(normalize_license_plate(rv.input[1]))

(* C25: add_favorite raises ValidationError and sends no create request    *)
(* when the normalized plate is the plate of a fetched favorite; otherwise *)
(* it sends exactly one create request carrying the normalized plate,      *)
(* unless the DVS Portal permit media defaults are still unknown after the *)
(* fetch, when it raises ProviderError and sends none.                     *)
C25_AddFavoriteDuplicate ==
    /\ AddsListedPlate => rv.out.raised = "ValidationError" /\ CreateRequests = {}
    /\ AddsNewPlate =>
          IF rv.provider = "dvsportal" /\ ~rv.input[4]
          THEN rv.out.raised = "ProviderError" /\ CreateRequests = {}
          ELSE OneCreateRequest

(* The DVS Portal adapter is asked to add "a1" while the second fetched    *)
(* favorite is A1.                                                         *)
C25_Witness ==
    /\ rv.op = "add_favorite"
    /\ rv.provider = "dvsportal"
    /\ rv.input[1] = <<"a", "1">>
    /\ rv.input[3] = <<<<"A">>, <<"A", "1">>>>
    /\ rv.out.raised = "ValidationError"
    /\ Len(rv.http) = 1

(* C25 as stated: whenever the normalized plate is not among the fetched   *)
(* favorites one create request is sent.                                   *)
C25_AsStated ==
    /\ AddsListedPlate => rv.out.raised = "ValidationError" /\ CreateRequests = {}
    /\ AddsNewPlate => OneCreateRequest

(* A DVS Portal update_reservation call that passes the argument checks    *)
(* and finds its reservation and the permit media defaults.  The input is  *)
(* <<fields, reservation_id, start_time, end_time, name, existing,         *)
(* defaults>>.                                                             *)
DvsUpdateReachesDelta ==
    /\ rv.op = "update_reservation"
    /\ rv.provider = "dvsportal"
    /\ reservation_update_possible(rv.input[1])
    /\ rv.input[3] = None
    /\ rv.input[4] # None
    /\ rv.input[5] = None
    /\ rv.input[6].id = Strip(coerce_id(rv.input[2]))
    /\ rv.input[7]

(* The requests that update a reservation. *)
UpdateRequests ==
    {i \in DOMAIN rv.http : rv.http[i].endpoint = "reservation/update"}

(* C26: the DVS Portal update request is sent, with Minutes the difference *)
(* of the new and the existing end in whole minutes, exactly when that     *)
(* difference in seconds is a multiple of 60 and the new end is after the  *)
(* existing start; a difference that is no whole number of minutes raises  *)
(* ValidationError and sends no update request.                            *)
C26_MinutesDelta ==
    DvsUpdateReachesDelta =>
        LET new_end == format_utc_timestamp(normalize_datetime(Val(rv.input[4])))
            delta_seconds == new_end - rv.input[6].end_time
        IN  /\ (delta_seconds % 60 = 0 /\ new_end > rv.input[6].start_time) =>
                  /\ Cardinality(UpdateRequests) = 1
                  /\ \A i \in UpdateRequests :
                        rv.http[i].payload[1] = delta_seconds \div 60
            /\ (delta_seconds % 60 # 0 \/ new_end <= rv.input[6].start_time) =>
                  /\ rv.out.raised = "ValidationError"
                  /\ UpdateRequests = {}

(* The local time the provider's zone shows at a UTC instant. *)
LocalTimeAt(instant) ==
    instant + (IF ProviderZone.spring <= instant /\ instant < ProviderZone.fall
               THEN ProviderZone.dst ELSE ProviderZone.std)

(* The UTC instants at which the zone shows the local time. *)
InstantsShowing(local) ==
    {instant \in (0 - ProviderZone.dst)..MaxHour : LocalTimeAt(instant) = local}

(* C27: _parse_provider_timestamp returns, for a timestamp without offset, *)
(* the UTC instant at which the provider's zone shows that local time: the *)
(* earlier one when two instants show it, and the local time less the      *)
(* standard offset when none does; for a timestamp with an offset or a Z   *)
(* suffix it returns the local time less the offset.                       *)
C27_ProviderTimestamp ==
    rv.op = "_parse_provider_timestamp" /\ rv.input[1] # None =>
        LET value == rv.input[1]
            shown == InstantsShowing(value.local)
        IN  CASE value.text = "naive" ->
                    /\ rv.out.raised = "none"
                    /\ IF shown # {}
                       THEN /\ rv.out.objects[1].start_time \in shown
                            /\ \A instant \in shown :
                                  rv.out.objects[1].start_time <= instant
                       ELSE rv.out.objects[1].start_time = value.local - ProviderZone.std
              [] value.text \in {"aware", "Z"} ->
                    /\ rv.out.raised = "none"
                    /\ rv.out.objects[1].start_time = value.local - value.offset
              [] OTHER -> rv.out.raised = "ValidationError"

(* A local time of the repeated hour was parsed to the earlier instant. *)
C27_Witness ==
    /\ rv.op = "_parse_provider_timestamp"
    /\ rv.input[1] # None
    /\ rv.input[1].text = "naive"
    /\ Cardinality(InstantsShowing(rv.input[1].local)) = 2
    /\ rv.out.raised = "none"
    /\ rv.out.objects[1].start_time = rv.input[1].local - ProviderZone.dst

(* validate_reservation_times was called with two aware datetimes. *)
ValidatesDatetimes ==
    /\ rv.op = "validate_reservation_times"
    /\ rv.input[1] \in Datetimes
    /\ rv.input[2] \in Datetimes

(* C28: validate_reservation_times with require_both=True raises           *)
(* ValidationError when an endpoint is missing and when the end is not     *)
(* after the start as instants, and for aware datetimes with the end after *)
(* the start it returns both endpoints in UTC.                             *)
C28_ValidateReservationTimes ==
    /\ (rv.op = "validate_reservation_times" /\ (rv.input[1] = None \/ rv.input[2] = None)) =>
          rv.out.raised = "ValidationError"
    /\ ValidatesDatetimes =>
          LET start_utc == rv.input[1].local - rv.input[1].offset
              end_utc == rv.input[2].local - rv.input[2].offset
          IN  IF end_utc <= start_utc
              THEN rv.out.raised = "ValidationError"
              ELSE /\ rv.out.raised = "none"
                   /\ rv.out.objects[1].start_time = start_utc
                   /\ rv.out.objects[2].start_time = end_utc

(* The positions of the pairs whose flag is true. *)
ChargeablePositions == {i \in DOMAIN rv.input[1] : rv.input[1][i][2]}

(* C29: filter_chargeable_zone_validity returns as many blocks as there    *)
(* are pairs with a true flag, and the k-th block returned is the block of *)
(* the k-th such pair: nothing paired with false is returned, nothing      *)
(* chargeable is dropped or repeated, and the order is kept.               *)
C29_FilterChargeable ==
    rv.op = "filter_chargeable_zone_validity" =>
        /\ Len(rv.out.objects) = Cardinality(ChargeablePositions)
        /\ \A i \in ChargeablePositions :
              rv.out.objects[Cardinality({j \in ChargeablePositions : j <= i})]
                  = rv.input[1][i][1]

(* Three pairs, b2 chargeable, b1 not, b1 chargeable: b2 then b1 returned. *)
C29_Witness ==
    /\ rv.op = "filter_chargeable_zone_validity"
    /\ Len(rv.input[1]) = 3
    /\ ChargeablePositions = {1, 3}
    /\ rv.input[1][1][1].id = "b2"
    /\ rv.input[1][3][1].id = "b1"
    /\ Len(rv.out.objects) = 2
    /\ rv.out.objects[1].id = "b2"
    /\ rv.out.objects[2].id = "b1"

(* The characters A-Z, a-z and 0-9 among those a plate is made of. *)
Alphanumeric == {"a", "B", "1"}

ForbiddenFields(value, allowed) ==
    \/ ~value.list
    \/ \E i \in 1..Len(value.items) :
          \/ value.items[i] = "int7"
          \/ StripItem(value.items[i]) = ""
          \/ StripItem(value.items[i]) \notin allowed
          \/ \E j \in 1..Len(value.items) :
                i # j /\ StripItem(value.items[i]) = StripItem(value.items[j])

(* The manifests that the rules forbid in the folder named folder_name. *)
ForbiddenManifest(data, folder_name) ==
    \/ ManifestKeys \ data.keys # {}
    \/ data.id # folder_name
    \/ CapabilityKeys \ data.capabilities.keys # {}
    \/ ForbiddenFields(data.capabilities.favorite_update_fields, FAVORITE_UPDATE_FIELDS)
    \/ ForbiddenFields(data.capabilities.reservation_update_fields,
                       RESERVATION_UPDATE_FIELDS)

(* The iteration of load_manifests' loop that reads folder f, by thread t. *)
ReadsManifest(t, f) ==
    /\ thr[t].pc = "read_file"
    /\ thr[t].idx = f
    /\ thr'[t] # thr[t]

(* C31: a load_manifests call that reads a manifest lacking a required key, *)
(* declaring an id other than its folder name, or listing an update field   *)
(* that is outside the allowed set, duplicated, empty or not a string ends  *)
(* there by raising ProviderError: it returns no list and writes nothing    *)
(* into the cache; and the cache never holds a partial list.                *)
C31_ManifestValidation ==
    [][/\ \A t \in Threads, f \in Folders :
            ReadsManifest(t, f) /\ ForbiddenManifest(ManifestAt(disk, f), FolderName(f))
                => /\ thr'[t].pc = "done"
                   /\ thr'[t].result = "ProviderError"
                   /\ thr'[t].value = <<>>
                   /\ MANIFEST_CACHE' = MANIFEST_CACHE
                   /\ MANIFEST_CACHE_EXPIRES_AT' = MANIFEST_CACHE_EXPIRES_AT
       /\ MANIFEST_CACHE' # None => Len(Val(MANIFEST_CACHE')) = NumFolders]_vars

(* C31 witness: a reload over a populated cache has raised ProviderError at *)
(* the second folder, whose manifest lists one update field twice, and the  *)
(* cache still holds a complete list.                                       *)
C31_Witness ==
    LET c == thr["T1"] IN
    /\ LoadDone("T1") /\ c.result = "ProviderError" /\ c.reloads = 1
    /\ c.idx = NumFolders /\ Len(c.manifests) = NumFolders - 1
    /\ disk.fault = "badschema" /\ disk.at = NumFolders
    /\ disk.data.capabilities.favorite_update_fields = FieldList(<<"name", " name ">>)
    /\ MANIFEST_CACHE # None
    /\ Len(Val(MANIFEST_CACHE)) = NumFolders

(***************************************************************************)
(* Claims about concurrent readers of the manifest cache, under            *)
(* SpecLoaderThreads                                                       *)
(***************************************************************************)

(* Thread t has passed the checks of lines 133-138 (the cache was not None *)
(* and, with a TTL, the clock was before the expiry) and now evaluates     *)
(* list(_MANIFEST_CACHE).                                                   *)
ReadsObservedCache(t) ==
    /\ thr[t].pc \in {"hit_ttl", "hit_no_ttl"}
    /\ thr'[t].pc = "done"

(* C38: a load_manifests call that has seen the cache populated and        *)
(* unexpired returns a manifest list, whatever another thread does to the  *)
(* cache between that check and the read of the global.                    *)
C38_ReaderReturnsList ==
    [][\A t \in Threads :
          ReadsObservedCache(t)
              => /\ thr'[t].result = "ok"
                 /\ \E v \in 1..MaxVersion : thr'[t].value = CompleteSet(v)]_vars

(***************************************************************************)
(* Claims about the login handshake, under SpecRequest                     *)
(***************************************************************************)

(* The call in progress is inside login: at the handshake request or, for  *)
(* DVS, at the request of _fetch_permit_media_type_id.                      *)
InsideLogin == rs.pc \in {"login", "media_types"}

(* The login invocations of the call in progress: the one of the call      *)
(* itself or of _ensure_authenticated, and those of _reauthenticate.        *)
LoginsOfCall == IF rs.ensured THEN rs.logins + 1 ELSE rs.logins

(* C32: a login, whoever called it, never triggers a reauthentication:     *)
(* no step inside login starts another login or a reauthentication, a 401  *)
(* or 403 answer to one of its requests ends the call with AuthError, and  *)
(* a call invokes login at most once besides its one reauthentication.      *)
C32_LoginNeverReauthenticates ==
    [][InsideLogin =>
        /\ rs'.logins = rs.logins
        /\ rs'.reauths = rs.reauths
        /\ rs.reauths <= 1
        /\ LoginsOfCall <= rs.reauths + 1
        /\ \A resp \in Responses :
              resp.status \in {401, 403} /\ HttpExchange(resp)
                  => /\ rs'.pc = "done"
                     /\ rs'.result = "AuthError"
                     /\ auth' = auth]_vars

(* C32 witness: the login that a reauthentication started was answered     *)
(* with 401 or 403 and the call ended with AuthError after that one login.  *)
C32_Witness ==
    /\ rs.pc = "done" /\ rs.op = "request" /\ rs.result = "AuthError"
    /\ rs.reauths = 1 /\ rs.logins = 1 /\ ~rs.loginOk
    /\ rs.authFailures = 1
    /\ auth.credentials /\ ~Authenticated(provider, auth)

(* The handshake answers that reject a login: 401 or 403, or a 2xx body    *)
(* without a granted token (DVS: LoginStatus 2 or no Token; Amsterdam: no  *)
(* token).                                                                  *)
RejectsHandshake(resp) ==
    \/ resp.status \in {401, 403}
    \/ /\ 200 <= resp.status /\ resp.status < 300
       /\ provider \in {"dvsportal", "amsterdam"}
       /\ resp.json /\ ~resp.granted

(* C33: a login that fails leaves the auth state (token, auth header,      *)
(* logged-in flag, cached credentials, cached media type id) as it was:    *)
(* without a username or a password it raises ValidationError before any   *)
(* request is sent, a rejected handshake raises AuthError, and no step     *)
(* inside login other than its successful end writes the auth state.       *)
C33_FailedLoginKeepsAuthState ==
    [][/\ \A username \in BOOLEAN, password \in BOOLEAN, with_id \in BOOLEAN :
            LoginCall(username, password, with_id)
                => /\ auth' = auth
                   /\ ~username \/ ~password
                         => rs'.pc = "done" /\ rs'.result = "ValidationError"
       /\ \A resp \in Responses :
            rs.pc = "login" /\ RejectsHandshake(resp) /\ HttpExchange(resp)
                => /\ rs'.pc = "done"
                   /\ rs'.result = "AuthError"
                   /\ auth' = auth
       /\ InsideLogin /\ auth' # auth
            => /\ issued' = issued + 1
               /\ Authenticated(provider, auth')
               /\ rs'.result \notin {"AuthError", "ValidationError", "NetworkError"}
       /\ InsideLogin /\ rs.op = "login" /\ rs'.pc = "done" /\ rs'.result # "ok"
            => auth' = auth]_vars

(* C33 witness: a login on an instance that was logged in has been         *)
(* rejected with AuthError, and the instance is still logged in with its   *)
(* token, credentials and media type id.                                    *)
C33_Witness ==
    /\ rs.pc = "done" /\ rs.op = "login" /\ rs.result = "AuthError"
    /\ provider = "dvsportal"
    /\ auth.token = Some(1) /\ auth.header = Some(1)
    /\ auth.credentials /\ auth.media_type
    /\ issued = 1

(***************************************************************************)
(* Claims about the cached credentials, under SpecRequest                  *)
(***************************************************************************)

(* The authenticated state: DVS has a token, The Hague and Amsterdam have  *)
(* the logged-in flag set.                                                  *)
InAuthenticatedState ==
    IF provider = "dvsportal" THEN auth.token # None ELSE auth.logged_in

(* The auth state differs from `before` at most in the token and its       *)
(* header value (DVS) or in the logged-in flag (The Hague, Amsterdam).      *)
OnlyLoginStateDropped(before, after) ==
    IF provider = "dvsportal"
    THEN after = [before EXCEPT !.token = None, !.header = None]
    ELSE after = [before EXCEPT !.logged_in = FALSE]

(* C34: an authenticated provider always has cached credentials; cached    *)
(* credentials are never cleared; a reauthentication drops only the token  *)
(* or the logged-in flag, and a failed one leaves the instance so that the *)
(* next operation starts with a new login handshake.                        *)
C34_CredentialsStayCached ==
    [][/\ InAuthenticatedState => auth.credentials
       /\ InAuthenticatedState' => auth'.credentials
       /\ auth.credentials => auth'.credentials
       /\ rs'.reauths = rs.reauths + 1 => OnlyLoginStateDropped(auth, auth')
       /\ rs.reauths = 1 /\ InsideLogin /\ rs'.pc = "done" /\ ~rs'.loginOk
            => /\ ~InAuthenticatedState'
               /\ auth'.credentials
       /\ \A op \in Operations :
            /\ ~InAuthenticatedState /\ auth.credentials
            /\ PrologueError(provider, op, auth) = "none"
            /\ OperationCall(op)
            => rs'.pc = "login" /\ rs'.ensured]_vars

(* C34 witness: after a reauthentication that failed, the next operation   *)
(* is at the login handshake that _ensure_authenticated started from the   *)
(* cached credentials.                                                      *)
C34_Witness ==
    /\ rs.pc = "login" /\ rs.ensured /\ rs.reauths = 0
    /\ ~InAuthenticatedState /\ auth.credentials
    /\ issued >= 1

(***************************************************************************)
(* Claims about the permit-media defaults, under SpecDvs                   *)
(***************************************************************************)

(* Task t hands its mutating request to the HTTP session in this step. *)
SendsMutatingRequest(t) ==
    /\ Runs(t, "send_mutate")
    /\ tk'[t].status = "wait_http"

(* C35: every mutating DVS request carries a permitMediaTypeID and a       *)
(* permitMediaCode that are not null; an operation that finds a default    *)
(* missing raises ProviderError instead of sending; and a default that was *)
(* cached is never reset to null.                                           *)
C35_MutatingRequestsCarryDefaults ==
    [][/\ \A t \in Tasks :
            SendsMutatingRequest(t)
                => /\ tk[t].payload.permitMediaTypeID # None
                   /\ tk[t].payload.permitMediaCode # None
       /\ \A t \in Tasks :
            Runs(t, "check_defaults") /\ DefaultsMissing
                => /\ tk'[t].status = "done"
                   /\ tk'[t].result = "ProviderError"
       /\ dvs.permit_media_type_id # None => dvs'.permit_media_type_id # None
       /\ dvs.permit_media_code # None => dvs'.permit_media_code # None]_vars

(* C35 witness: a task waits for the answer to its mutating request, sent  *)
(* a second time after a reauthentication (whose login was the latest      *)
(* write to the instance), with both defaults in its payload.              *)
C35_Witness ==
    \E t \in Tasks :
        /\ tk[t].status = "wait_http" /\ Head(tk[t].cont) = "send_mutate"
        /\ tk[t].op = "remove_favorite"
        /\ tk[t].payload = Payload(Some("type"), Some("code"))
        /\ tk[t].pass = 1
        /\ lastWrite.by = t /\ "credentials" \in lastWrite.fields

(***************************************************************************)
(* Claims about the release of the operation guard, under SpecDvs          *)
(***************************************************************************)

(* The operation of task t ends in this step, by returning or by raising. *)
OperationEnds(t) ==
    /\ tk[t].status \notin {"idle", "done"}
    /\ tk'[t].status = "done"

(* Task t leaves its outermost guard in this step. *)
LeavesOutermostGuard(t) ==
    /\ HoldsGuard(t)
    /\ tk'[t].guards = <<>>

(* C36: the operation guard is always released: when an operation returns *)
(* or raises (also CancelledError at an await), and whenever a task leaves *)
(* its outermost guard, the lock is free, _lock_owner is None and          *)
(* _lock_depth is 0 afterwards; in every state the lock is held iff        *)
(* _lock_owner is a task iff _lock_depth >= 1, and at most one task is     *)
(* inside the guarded region.                                               *)
C36_GuardAlwaysReleased ==
    [][/\ \A t \in Tasks :
            OperationEnds(t) => tk'[t].guards = <<>>
       /\ \A t \in Tasks :
            LeavesOutermostGuard(t)
                => /\ ~operation_lock'.locked
                   /\ dvs'.lock_owner = None
                   /\ dvs'.lock_depth = 0
       /\ operation_lock.locked <=> dvs.lock_owner # None
       /\ dvs.lock_owner # None <=> dvs.lock_depth >= 1
       /\ dvs.lock_owner # None => Val(dvs.lock_owner) \in Tasks
       /\ Cardinality({t \in Tasks : HoldsGuard(t)}) <= 1
       /\ \A t \in Tasks : HoldsGuard(t) => dvs.lock_owner = Some(t)]_vars

(* C36 witness: remove_favorite of task A was cancelled at an HTTP         *)
(* exchange after its reauthentication, inside its guards; the lock is     *)
(* free again, and task B, which waited for it, is the next to take it.    *)
C36_Witness ==
    /\ tk["A"].status = "done" /\ tk["A"].result = "CancelledError"
    /\ tk["A"].op = "remove_favorite" /\ tk["A"].pass = 1
    /\ ~operation_lock.locked
    /\ dvs.lock_owner = None /\ dvs.lock_depth = 0
    /\ tk["B"].status = "wait_lock"
    /\ operation_lock.waiters = <<"B">>

(***************************************************************************)
(* Claims about the favorite that DVS add_favorite returns, under          *)
(* SpecResult                                                              *)
(***************************************************************************)

(* C37: DVS add_favorite returns a Favorite whose license_plate is the     *)
(* normalized plate that was requested, or raises ProviderError when the   *)
(* favorites the backend returned do not contain that plate; it never      *)
(* returns another favorite.                                                *)
C37_AddFavoriteReturnsRequested ==
    rv.op = "add_favorite returns" =>
        LET normalized_plate == rv.input[1]
            returned == rv.input[2]
        IN  /\ rv.out.raised = "none" => rv.value = Some(normalized_plate)
            /\ (\A i \in DOMAIN returned : returned[i] # normalized_plate)
                  => rv.out.raised = "ProviderError"

(***************************************************************************)
(* Claims about a fallback that fails half-way, under SpecFavorite         *)
(***************************************************************************)

(* C39: in the remove-then-add fallback of update_favorite, add_favorite   *)
(* is awaited only after remove_favorite succeeded.  When the adapter's    *)
(* remove_favorite fails, the call awaits remove_favorite alone and ends   *)
(* with its error; when remove_favorite succeeds and add_favorite fails,   *)
(* the call awaits the two in that order and nothing after them (no        *)
(* re-add of the removed favorite), and ends with the error of             *)
(* add_favorite and no Favorite.                                            *)
C39_FallbackStopsAtFailure ==
    uf.call.called /\ NoNativeFavoriteUpdate /\ UsablePlate =>
        /\ (\E i \in DOMAIN uf.call.calls : uf.call.calls[i].method = "add_favorite") =>
              uf.call.removed /\ uf.call.calls = RemoveThenAdd
        /\ ~uf.call.removed =>
              /\ uf.call.calls = SubSeq(RemoveThenAdd, 1, 1)
              /\ uf.call.raised = "ProviderError"
        /\ uf.call.removed /\ ~uf.call.added =>
              /\ uf.call.calls = RemoveThenAdd
              /\ uf.call.raised = "ProviderError"
              /\ uf.call.favorite = None

====
